---- MODULE Spec2Model ----
(***************************************************************************)
(* SID (Storage Instantiation Daemon): the ubridge resource and the worker *)
(* control resource.                                                       *)
(*                                                                         *)
(* SpecProc models the processes: the parent's worker proxies, the worker  *)
(* processes, the channels between them, the client connection and the     *)
(* command context of a worker.                                            *)
(* SpecStore models the mutations of one worker's snapshot of the          *)
(* key-value store.                                                        *)
(* SpecMerge models workers that fork with a snapshot of the main store,   *)
(* change it, export it and have it merged into the main store.            *)
(***************************************************************************)
EXTENDS Integers, Sequences, FiniteSets, TLC

(***************************************************************************)
(* Bounds                                                                  *)
(***************************************************************************)
MaxWorkers == 1
MaxTime == 3
MaxOps == 3
MaxMergeOps == 2
MaxForks == 3
MaxMergeForks == 2
MaxRelationOps == 1
MaxSeq == 2

(***************************************************************************)
(* Process state                                                           *)
(***************************************************************************)
VARIABLES
    worker_proxy,   \* parent: struct worker_proxy of every proxy resource
    worker,         \* the worker processes (struct worker and the process itself)
    chan_to_worker, \* channel "main", proxy --> worker direction
    chan_to_proxy,  \* channel "main", worker --> proxy direction
    conn,           \* worker: the connection resource
    cmd,            \* worker: the command resource (struct sid_ucmd_ctx)
    now,            \* CLOCK_MONOTONIC
    pev             \* the handler that ran last, with what it did

pvars == <<worker_proxy, worker, chan_to_worker, chan_to_proxy, conn, cmd, now, pev>>

(***************************************************************************)
(* Key-value store state                                                   *)
(***************************************************************************)
VARIABLES
    main_kv,        \* parent: the main key-value store
    snap,           \* a worker: its snapshot of the store and its command's device
    exports,        \* export buffers built by workers and not yet merged
    kvev            \* the operation that ran last, with what it did

kvars == <<main_kv, snap, exports, kvev>>

vars == <<pvars, kvars>>

Workers == 1..MaxWorkers

\* signals; SIG_NONE is the signal number 0 of a timeout spec without a signal
SIGTERM == "SIGTERM"
SIGUSR1 == "SIGUSR1"
SIG_NONE == "0"

\* struct worker_timeout_spec values a worker is spawned with (usec in clock ticks)
TimeoutSpecs ==
    { [usec |-> 0, signum |-> SIG_NONE],
      [usec |-> 1, signum |-> SIGTERM],
      [usec |-> 2, signum |-> SIG_NONE] }

\* exec_timeout_es == NULL
NO_TIMER == [armed |-> FALSE, deadline |-> 0]

\* worker_state_t
WORKER_STATE_NEW == "WORKER_NEW"
WORKER_STATE_IDLE == "WORKER_IDLE"
WORKER_STATE_ASSIGNED == "WORKER_ASSIGNED"
WORKER_STATE_EXITING == "WORKER_EXITING"
WORKER_STATE_TIMED_OUT == "WORKER_TIMED_OUT"
WORKER_STATE_EXITED == "WORKER_EXITED"

\* worker_channel_cmd_t
WORKER_CHANNEL_CMD_YIELD == 1
WORKER_CHANNEL_CMD_DATA == 2
WORKER_CHANNEL_CMD_DATA_EXT == 3

\* msg_category_t
MSG_CATEGORY_SYSTEM == "SYSTEM"
MSG_CATEGORY_SELF == "SELF"
MSG_CATEGORY_CLIENT == "CLIENT"

\* system commands
SYSTEM_CMD_SYNC == "SYNC"
SYSTEM_CMD_RESOURCES == "RESOURCES"

\* a proxy resource that does not exist (yet, or any more)
NoProxy ==
    [res |-> "none", state |-> WORKER_STATE_NEW, idle_timeout_es |-> FALSE,
     exec_timeout_es |-> NO_TIMER, timeout_spec |-> [usec |-> 0, signum |-> SIG_NONE],
     created |-> 0, merged |-> "none"]

NoWorker == [proc |-> "none", parent_exited |-> 0, signals |-> {}]

\* _change_worker_proxy_state
_change_worker_proxy_state(wp, state) == [wp EXCEPT !.state = state]

\* _init_worker_proxy: the proxy of a freshly forked worker; the execution
\* timeout, if the timeout spec has one, is created here, relative to now
_init_worker_proxy(timeout_spec, t) ==
    [res |-> "live", state |-> WORKER_STATE_NEW, idle_timeout_es |-> FALSE,
     exec_timeout_es |-> IF timeout_spec.usec # 0
                         THEN [armed |-> TRUE, deadline |-> t + timeout_spec.usec]
                         ELSE NO_TIMER,
     timeout_spec |-> timeout_spec, created |-> t, merged |-> "none"]

\* worker_control_get_idle_worker: the proxies in state IDLE
worker_control_get_idle_worker ==
    { p \in Workers : worker_proxy[p].res = "live" /\ worker_proxy[p].state = WORKER_STATE_IDLE }

\* worker_control_channel_send, proxy side: the idle timer is destroyed and the
\* state becomes ASSIGNED whatever it was
ProxySend_state_kept(wp) == [wp EXCEPT !.idle_timeout_es = FALSE]
ProxySend(wp) ==
    [_change_worker_proxy_state(wp, WORKER_STATE_ASSIGNED) EXCEPT !.idle_timeout_es = FALSE]

\* _make_worker_exit: kill(pid, SIGTERM) and, as that succeeds, state EXITING
_make_worker_exit(wp) == _change_worker_proxy_state(wp, WORKER_STATE_EXITING)

\* kill(pid, signum) as seen by the worker process
Kill_lost(w, signum) == w
Kill(w, signum) ==
    [w EXCEPT !.signals = IF w.proc = "running" THEN @ \cup {signum} ELSE @]


(***************************************************************************)
(* Strings.  A C string is a sequence of one-character strings, so that    *)
(* composing and parsing keys and comparing items work on the characters.  *)
(***************************************************************************)

\* the characters that occur in keys, in ASCII order
Chars ==
    <<" ", "#", "+", "-", "0", "1", "6", "8", ":", ">", "B", "D", "E", "G", "I", "M",
      "N", "R", "S", "U", "X", "Y", "_", "a", "b", "g", "h", "k", "v">>

Ord(c) == CHOOSE i \in 1..Len(Chars) : Chars[i] = c

\* strcmp: negative, zero or positive
RECURSIVE strcmp(_, _)
strcmp(a, b) ==
    IF a = <<>> /\ b = <<>> THEN 0
    ELSE IF a = <<>> THEN -1
    ELSE IF b = <<>> THEN 1
    ELSE IF Ord(Head(a)) < Ord(Head(b)) THEN -1
    ELSE IF Ord(Head(a)) > Ord(Head(b)) THEN 1
    ELSE strcmp(Tail(a), Tail(b))

\* strstr(s, ":"): the index of the first join character at or after position
\* from, 0 if there is none
RECURSIVE FindJoin(_, _)
FindJoin(s, from) ==
    IF from > Len(s) THEN 0
    ELSE IF s[from] = ":" THEN from
    ELSE FindJoin(s, from + 1)

\* qsort with _vvalue_str_cmp: insertion of one item into a sorted vector
RECURSIVE SortedInsert(_, _)
SortedInsert(v, x) ==
    IF v = <<>> THEN <<x>>
    ELSE IF strcmp(x, Head(v)) < 0 THEN <<x>> \o v
    ELSE <<Head(v)>> \o SortedInsert(Tail(v), x)

RECURSIVE qsort(_)
qsort(v) == IF v = <<>> THEN <<>> ELSE SortedInsert(qsort(Tail(v)), Head(v))

(***************************************************************************)
(* Keys                                                                    *)
(***************************************************************************)
ID_NULL == <<>>
KV_STORE_KEY_JOIN == <<":">>
KV_PREFIX_OP_SYNC_C == ">"

\* kv_op_t
KV_OP_ILLEGAL == 0
KV_OP_SET == 1
KV_OP_PLUS == 2
KV_OP_MINUS == 3

\* sid_ucmd_kv_namespace_t
KV_NS_UNDEFINED == "KV_NS_UNDEFINED"
KV_NS_UDEV == "KV_NS_UDEV"
KV_NS_DEVICE == "KV_NS_DEVICE"
KV_NS_MODULE == "KV_NS_MODULE"
KV_NS_GLOBAL == "KV_NS_GLOBAL"

KV_KEY_DOM_USER == <<"U", "S", "R">>
KV_KEY_GEN_GROUP_MEMBERS == <<"#", "G", "M", "B">>
KV_KEY_GEN_GROUP_IN == <<"#", "G", "I", "N">>
KV_KEY_DEV_READY == <<"#", "R", "D", "Y">>
OWNER_CORE == <<"#", "c", "o", "r", "e">>

\* key_part_t
KEY_PART_OP == 0
KEY_PART_DOM == 1
KEY_PART_NS == 2
KEY_PART_NS_PART == 3
KEY_PART_ID == 4
KEY_PART_ID_PART == 5
KEY_PART_CORE == 6

op_to_key_prefix_map(op) ==
    CASE op = KV_OP_ILLEGAL -> <<"X">>
      [] op = KV_OP_SET -> <<>>
      [] op = KV_OP_PLUS -> <<"+">>
      [] op = KV_OP_MINUS -> <<"-">>

ns_to_key_prefix_map(ns) ==
    CASE ns = KV_NS_UNDEFINED -> <<>>
      [] ns = KV_NS_UDEV -> <<"U">>
      [] ns = KV_NS_DEVICE -> <<"D">>
      [] ns = KV_NS_MODULE -> <<"M">>
      [] ns = KV_NS_GLOBAL -> <<"G">>

\* struct kv_key_spec
KeySpec(op, dom, ns, ns_part, id, id_part, core) ==
    [op |-> op, dom |-> dom, ns |-> ns, ns_part |-> ns_part, id |-> id,
     id_part |-> id_part, core |-> core]

\* _do_compose_key: <extra op><op>:<dom>:<ns>:<ns_part>:<id>:<id_part>[:<core>]
_do_compose_key(key_spec, prefix_only) ==
    (IF prefix_only THEN <<>> ELSE <<" ">>)
        \o op_to_key_prefix_map(key_spec.op) \o KV_STORE_KEY_JOIN
        \o key_spec.dom \o KV_STORE_KEY_JOIN
        \o ns_to_key_prefix_map(key_spec.ns) \o KV_STORE_KEY_JOIN
        \o key_spec.ns_part \o KV_STORE_KEY_JOIN
        \o key_spec.id \o KV_STORE_KEY_JOIN
        \o key_spec.id_part
        \o (IF prefix_only THEN <<>> ELSE KV_STORE_KEY_JOIN)
        \o (IF prefix_only THEN <<>> ELSE key_spec.core)

_compose_key(key_spec) == _do_compose_key(key_spec, FALSE)

_compose_key_prefix(key_spec) == _do_compose_key(key_spec, TRUE)

\* the start of part req_part in key: one past the req_part-th join, 0 if
\* the key has fewer joins
RECURSIVE PartStart(_, _, _)
PartStart(key, req_part, start) ==
    IF req_part = 0 THEN start
    ELSE LET j == FindJoin(key, start)
         IN  IF j = 0 THEN 0 ELSE PartStart(key, req_part - 1, j + 1)

\* a NULL char pointer
NULL_STR == <<"NULL">>

\* _get_key_part: the requested part of the key, NULL if it is not there
_get_key_part(key, req_part) ==
    LET start == PartStart(key, req_part, 1)
    IN  IF start = 0 THEN NULL_STR
        ELSE IF req_part = KEY_PART_CORE THEN SubSeq(key, start, Len(key))
        ELSE LET end == FindJoin(key, start)
             IN  IF end = 0 THEN NULL_STR ELSE SubSeq(key, start, end - 1)

\* _get_op_from_key
_get_op_from_key(key) ==
    LET str == _get_key_part(key, KEY_PART_OP)
    IN  IF str = NULL_STR THEN KV_OP_ILLEGAL
        ELSE IF Len(str) > 1 THEN KV_OP_ILLEGAL
        ELSE IF Len(str) = 0 THEN KV_OP_SET
        ELSE IF str[1] = "+" THEN KV_OP_PLUS
        ELSE IF str[1] = "-" THEN KV_OP_MINUS
        ELSE KV_OP_ILLEGAL

\* _get_ns_from_key
_get_ns_from_key(key) ==
    LET str == _get_key_part(key, KEY_PART_NS)
    IN  IF str = NULL_STR THEN KV_NS_UNDEFINED
        ELSE IF Len(str) # 1 THEN KV_NS_UNDEFINED
        ELSE IF str[1] = "U" THEN KV_NS_UDEV
        ELSE IF str[1] = "D" THEN KV_NS_DEVICE
        ELSE IF str[1] = "M" THEN KV_NS_MODULE
        ELSE IF str[1] = "G" THEN KV_NS_GLOBAL
        ELSE KV_NS_UNDEFINED

\* _copy_ns_part_from_key
_copy_ns_part_from_key(key) == _get_key_part(key, KEY_PART_NS_PART)

(***************************************************************************)
(* Values and the key-value store                                          *)
(***************************************************************************)

\* sid_ucmd_kv_flags_t
KV_SYNC == "KV_SYNC"
KV_PERSISTENT == "KV_PERSISTENT"
KV_MOD_PROTECTED == "KV_MOD_PROTECTED"
KV_MOD_PRIVATE == "KV_MOD_PRIVATE"
KV_MOD_RESERVED == "KV_MOD_RESERVED"
KV_FLAGS_UNSET == {}

DEFAULT_VALUE_FLAGS_CORE == {KV_SYNC, KV_PERSISTENT, KV_MOD_RESERVED, KV_MOD_PRIVATE}
value_flags_no_sync == DEFAULT_VALUE_FLAGS_CORE \ {KV_SYNC}
value_flags_sync == DEFAULT_VALUE_FLAGS_CORE

\* update_arg->ret_code values
KV_INDEX_NOOP == "KV_INDEX_NOOP"
KV_INDEX_ADD == "KV_INDEX_ADD"
KV_INDEX_REMOVE == "KV_INDEX_REMOVE"

\* errno values returned negated
EPERM == 1
EINVAL == 22
ENOTEMPTY == 39

\* no record, no buffer
NULL == [null |-> TRUE]

\* a value with its header (VVALUE_IDX_SEQNUM, _FLAGS, _OWNER) and its data:
\* the items of a vector, or the bytes of a scalar (a merged vector)
Value(seqnum, flags, owner, vector, data) ==
    [seqnum |-> seqnum, flags |-> flags, owner |-> owner, vector |-> vector, data |-> data]

\* the store: the records by key, and the keys that have a '>' alias
EmptyStore == [rec |-> <<>>, alias |-> {}]

\* the store takes a key with or without the leading byte for the extra op
MainKey(key) == IF key # <<>> /\ Head(key) \in {" ", KV_PREFIX_OP_SYNC_C} THEN Tail(key) ELSE key

kv_store_get_value(st, key) ==
    IF MainKey(key) \in DOMAIN st.rec THEN st.rec[MainKey(key)] ELSE NULL

\* kv_store_set_value: the update callback's verdict u decides whether
\* u.new is stored
kv_store_set_value(st, key, u) ==
    IF u.commit THEN [st EXCEPT !.rec = (MainKey(key) :> u.new) @@ @] ELSE st

\* kv_store_unset of a record, if the callback's verdict u allows it
kv_store_unset(st, key, u) ==
    IF u.commit
    THEN [st EXCEPT !.rec = [k \in (DOMAIN @) \ {MainKey(key)} |-> @[k]]]
    ELSE st

\* kv_store_add_alias: the '>' alias of an existing record
kv_store_add_alias(st, key) ==
    IF MainKey(key) \in DOMAIN st.rec THEN [st EXCEPT !.alias = @ \cup {MainKey(key)}] ELSE st

\* kv_store_unset of the '>' alias
kv_store_unset_alias(st, key) == [st EXCEPT !.alias = @ \ {MainKey(key)}]

\* _check_kv_index_needed
_check_kv_index_needed(vvalue_old, vvalue_new) ==
    LET old_indexed == vvalue_old # NULL /\ KV_SYNC \in vvalue_old.flags
        new_indexed == vvalue_new # NULL /\ KV_SYNC \in vvalue_new.flags
    IN  IF old_indexed /\ ~new_indexed THEN KV_INDEX_REMOVE
        ELSE IF ~old_indexed /\ new_indexed THEN KV_INDEX_ADD
        ELSE KV_INDEX_NOOP

\* _manage_kv_index
_manage_kv_index(st, ret_code, key) ==
    IF ret_code = KV_INDEX_ADD THEN kv_store_add_alias(st, key)
    ELSE IF ret_code = KV_INDEX_REMOVE THEN kv_store_unset_alias(st, key)
    ELSE st

\* _kv_cb_overwrite_deny: the three ownership tests of _kv_cb_overwrite, the
\* error it refuses with, "" if it does not refuse
OverwriteDenied_protected_open(old, new) ==
    IF old = NULL THEN ""
    ELSE IF KV_MOD_PRIVATE \in old.flags
         THEN (IF old.owner # new.owner THEN "-EACCES" ELSE "")
    ELSE IF KV_MOD_RESERVED \in old.flags
         THEN (IF old.owner # new.owner THEN "-EBUSY" ELSE "")
    ELSE ""
OverwriteDenied(old, new) ==
    IF old = NULL THEN ""
    ELSE IF KV_MOD_PRIVATE \in old.flags
         THEN (IF old.owner # new.owner THEN "-EACCES" ELSE "")
    ELSE IF KV_MOD_PROTECTED \in old.flags
         THEN (IF old.owner # new.owner THEN "-EPERM" ELSE "")
    ELSE IF KV_MOD_RESERVED \in old.flags
         THEN (IF old.owner # new.owner THEN "-EBUSY" ELSE "")
    ELSE ""

\* _kv_cb_overwrite
_kv_cb_overwrite(old, new) ==
    IF OverwriteDenied(old, new) # ""
    THEN [commit |-> FALSE, new |-> new, ret_code |-> OverwriteDenied(old, new)]
    ELSE [commit |-> TRUE, new |-> new, ret_code |-> _check_kv_index_needed(old, new)]

\* _kv_cb_reserve: ret_code is left as it was when there is no old record
_kv_cb_reserve(old, new, ret_code) ==
    IF old = NULL THEN [commit |-> TRUE, new |-> new, ret_code |-> ret_code]
    ELSE IF old.owner # new.owner THEN [commit |-> FALSE, new |-> new, ret_code |-> "-EBUSY"]
    ELSE [commit |-> TRUE, new |-> new, ret_code |-> _check_kv_index_needed(old, new)]

\* _kv_cb_unreserve
_kv_cb_unreserve(old, owner, ret_code) ==
    IF old = NULL THEN [commit |-> TRUE, ret_code |-> ret_code]
    ELSE IF old.owner # owner THEN [commit |-> FALSE, ret_code |-> "-EBUSY"]
    ELSE [commit |-> TRUE, ret_code |-> _check_kv_index_needed(old, NULL)]

\* _kv_cb_write_new_only
_kv_cb_write_new_only(old, new, ret_code) ==
    IF old # NULL THEN [commit |-> FALSE, new |-> new, ret_code |-> ret_code]
    ELSE [commit |-> TRUE, new |-> new, ret_code |-> _check_kv_index_needed(old, new)]

\* _get_ns_part
_get_ns_part(mod, dev_id, ns) ==
    IF ns \in {KV_NS_UDEV, KV_NS_DEVICE} THEN dev_id
    ELSE IF ns = KV_NS_MODULE THEN mod
    ELSE ID_NULL

\* _passes_global_reservation_check
_passes_global_reservation_check(st, owner, ns, key_core) ==
    IF ns \notin {KV_NS_UDEV, KV_NS_DEVICE} THEN TRUE
    ELSE LET found == kv_store_get_value(st,
                          _compose_key(KeySpec(KV_OP_SET, ID_NULL, ns, ID_NULL, ID_NULL, ID_NULL, key_core)))
         IN  found = NULL \/ (KV_MOD_RESERVED \in found.flags /\ found.owner = owner)

\* _do_sid_ucmd_set_kv: the store afterwards, whether the value was committed,
\* what the function returns (ret: non-NULL) and update_arg.ret_code ("none"
\* when the global reservation refuses the set before update_arg is set up)
_do_sid_ucmd_set_kv(st, owner, dev_id, seqnum, dom, ns, key_core, flags, value) ==
    LET key == _compose_key(KeySpec(KV_OP_SET, dom, ns, _get_ns_part(owner, dev_id, ns),
                                    ID_NULL, ID_NULL, key_core))
        old == kv_store_get_value(st, key)
        u == _kv_cb_overwrite(old, Value(seqnum, flags, owner, FALSE, value))
    IN  IF ~(ns = KV_NS_UDEV /\ owner = OWNER_CORE)
           /\ ~_passes_global_reservation_check(st, owner, ns, key_core)
        THEN [st |-> st, committed |-> FALSE, ret |-> FALSE, ret_code |-> "none",
              key |-> key, checked |-> FALSE]
        ELSE IF ~u.commit \/ Len(value) = 0
        THEN [st |-> kv_store_set_value(st, key, u), committed |-> u.commit, ret |-> FALSE,
              ret_code |-> u.ret_code, key |-> key, checked |-> TRUE]
        ELSE [st |-> _manage_kv_index(kv_store_set_value(st, key, u), u.ret_code, key),
              committed |-> TRUE, ret |-> TRUE, ret_code |-> u.ret_code, key |-> key,
              checked |-> TRUE]

\* _do_sid_ucmd_mod_reserve_kv
_do_sid_ucmd_mod_reserve_kv(st, owner, ns, key_core, unset, is_worker) ==
    LET key == _compose_key(KeySpec(KV_OP_SET, ID_NULL, ns, ID_NULL, ID_NULL, ID_NULL, key_core))
        flags == (IF unset THEN KV_FLAGS_UNSET ELSE {KV_MOD_RESERVED})
                     \cup (IF is_worker THEN {KV_SYNC, KV_PERSISTENT} ELSE {})
        old == kv_store_get_value(st, key)
    IN  IF unset /\ ~is_worker
        THEN LET u == _kv_cb_unreserve(old, owner, "-EREMOTEIO")
             IN  [st |-> kv_store_unset(st, key, u), r |-> IF u.commit THEN 0 ELSE -1,
                  ret_code |-> u.ret_code, key |-> key]
        ELSE LET u == _kv_cb_reserve(old, Value(0, flags, owner, FALSE, <<>>), "-EREMOTEIO")
             IN  IF u.commit
                 THEN [st |-> _manage_kv_index(kv_store_set_value(st, key, u), u.ret_code, key),
                       r |-> 0, ret_code |-> u.ret_code, key |-> key]
                 ELSE [st |-> st, r |-> -1, ret_code |-> u.ret_code, key |-> key]

\* _cmd_get_key_spec_value without the test of KV_MOD_PRIVATE
_cmd_get_key_spec_value_private_open(st, owner, key_spec) ==
    LET svalue == kv_store_get_value(st, _compose_key(key_spec))
    IN  IF svalue = NULL
        THEN [returned |-> FALSE, value |-> <<>>, flags_read |-> FALSE, flags |-> {}]
        ELSE [returned |-> svalue.data # <<>>, value |-> svalue.data, flags_read |-> TRUE,
              flags |-> svalue.flags]

\* _cmd_get_key_spec_value: the value of a record, not returned (NULL) when
\* there is no record, when the record is KV_MOD_PRIVATE and owned by another
\* module, or when the value has no data; the flags are written only when
\* the record may be read
_cmd_get_key_spec_value(st, owner, key_spec) ==
    LET svalue == kv_store_get_value(st, _compose_key(key_spec))
    IN  IF svalue = NULL
        THEN [returned |-> FALSE, value |-> <<>>, flags_read |-> FALSE, flags |-> {}]
        ELSE IF KV_MOD_PRIVATE \in svalue.flags /\ svalue.owner # owner
        THEN [returned |-> FALSE, value |-> <<>>, flags_read |-> FALSE, flags |-> {}]
        ELSE [returned |-> svalue.data # <<>>, value |-> svalue.data, flags_read |-> TRUE,
              flags |-> svalue.flags]

\* _do_sid_ucmd_get_kv
_do_sid_ucmd_get_kv(st, mod, dev_id, dom, ns, key) ==
    _cmd_get_key_spec_value(st, mod,
                            KeySpec(KV_OP_SET, dom, ns, _get_ns_part(mod, dev_id, ns), ID_NULL,
                                    ID_NULL, key))

\* strchr: the position of the first c in the string, 0 when there is none
strchr(str, c) ==
    IF \E i \in 1..Len(str) : str[i] = c
    THEN CHOOSE i \in 1..Len(str) : str[i] = c /\ \A j \in 1..(i - 1) : str[j] # c
    ELSE 0

\* _device_add_field with KV_SYNC | KV_PERSISTENT in place of the flags 0
_device_add_field_sync_persistent(st, dev_id, seqnum, start) ==
    LET eq == strchr(start, "=")
    IN  IF eq = 0 \/ eq = Len(start)
        THEN [r |-> -1, st |-> st]
        ELSE LET s == _do_sid_ucmd_set_kv(st, OWNER_CORE, dev_id, seqnum, ID_NULL, KV_NS_UDEV,
                                          SubSeq(start, 1, eq - 1), {KV_SYNC, KV_PERSISTENT},
                                          SubSeq(start, eq + 1, Len(start)))
             IN  [r |-> IF s.ret THEN 0 ELSE -1, st |-> s.st]

\* _device_add_field: a field KEY=VALUE of the udev environment is stored by
\* the core (mod NULL) with dom NULL and flags 0; a field without '=' or with
\* nothing after it is refused
_device_add_field(st, dev_id, seqnum, start) ==
    LET eq == strchr(start, "=")
    IN  IF eq = 0 \/ eq = Len(start)
        THEN [r |-> -1, st |-> st]
        ELSE LET s == _do_sid_ucmd_set_kv(st, OWNER_CORE, dev_id, seqnum, ID_NULL, KV_NS_UDEV,
                                          SubSeq(start, 1, eq - 1), {},
                                          SubSeq(start, eq + 1, Len(start)))
             IN  [r |-> IF s.ret THEN 0 ELSE -1, st |-> s.st]

\* _parse_cmd_udev_env: the fields after the device number, in order; the
\* loop ends at the first field that _device_add_field refuses, with
\* r = (_device_add_field(...) < 0), that is 1.  n: the fields stored.
RECURSIVE ParseCmdUdevEnvLoop(_, _, _, _, _)
ParseCmdUdevEnvLoop(st, dev_id, seqnum, env, i) ==
    IF i > Len(env) THEN [r |-> 0, st |-> st, n |-> Len(env)]
    ELSE LET Next_(f) == IF f.r < 0 THEN [r |-> 1, st |-> f.st, n |-> i - 1]
                         ELSE ParseCmdUdevEnvLoop(f.st, dev_id, seqnum, env, i + 1)
         IN  Next_(_device_add_field(st, dev_id, seqnum, env[i]))
_parse_cmd_udev_env(st, dev_id, seqnum, env) ==
    IF env = <<>> THEN [r |-> -EINVAL, st |-> st, n |-> 0]
    ELSE ParseCmdUdevEnvLoop(st, dev_id, seqnum, env, 1)

(***************************************************************************)
(* The delta engine                                                        *)
(***************************************************************************)

\* delta_flags_t
DELTA_NO_FLAGS == {}
DELTA_WITH_DIFF == "DELTA_WITH_DIFF"
DELTA_WITH_REL == "DELTA_WITH_REL"

\* _flags_indicate_mod_owned
_flags_indicate_mod_owned(flags) ==
    flags \cap {KV_MOD_PROTECTED, KV_MOD_PRIVATE, KV_MOD_RESERVED} # {}

\* _get_vvalue: the items of a stored value seen as a vector
VvalueItems(v) ==
    IF v = NULL THEN <<>>
    ELSE IF v.vector THEN v.data
    ELSE IF v.data = <<>> THEN <<>> ELSE <<v.data>>

\* the merge walk of _delta_step_calc over the items of the old and the new
\* vector: what goes to the plus, minus and final buffers
RECURSIVE DeltaWalk(_, _, _)
DeltaWalk(op, old, new) ==
    IF old = <<>> /\ new = <<>>
    THEN [r |-> 0, plus |-> <<>>, minus |-> <<>>, final |-> <<>>]
    ELSE IF op \notin {KV_OP_SET, KV_OP_PLUS, KV_OP_MINUS}
    THEN [r |-> -1, plus |-> <<>>, minus |-> <<>>, final |-> <<>>]
    ELSE LET cmp_result == IF old = <<>> THEN 1
                           ELSE IF new = <<>> THEN -1
                           ELSE strcmp(Head(old), Head(new))
         IN  IF cmp_result < 0
             THEN \* the old vector has an item the new one does not have
                  LET w == DeltaWalk(op, Tail(old), new)
                  IN  IF op = KV_OP_SET
                      THEN [w EXCEPT !.minus = <<Head(old)>> \o @]
                      ELSE [w EXCEPT !.final = <<Head(old)>> \o @]
             ELSE IF cmp_result > 0
             THEN \* the new vector has an item the old one does not have
                  LET w == DeltaWalk(op, old, Tail(new))
                  IN  IF op = KV_OP_MINUS
                      THEN w
                      ELSE [w EXCEPT !.plus = <<Head(new)>> \o @,
                                     !.final = <<Head(new)>> \o @]
             ELSE \* both have the item
                  LET w == DeltaWalk(op, Tail(old), Tail(new))
                  IN  IF op = KV_OP_MINUS
                      THEN [w EXCEPT !.minus = <<Head(new)>> \o @]
                      ELSE [w EXCEPT !.final = <<Head(new)>> \o @]

\* _delta_step_calc with the "both have the item" case falling through to
\* the plus buffer: the plus buffer gets the items of the final vector
_delta_step_calc_common_to_plus(op, old, new) ==
    LET w == DeltaWalk(op, VvalueItems(old), new.data)
        buf(items) == [new EXCEPT !.vector = TRUE, !.data = items]
    IN  IF w.r < 0
        THEN [r |-> -1, plus |-> NULL, minus |-> NULL, final |-> NULL]
        ELSE [r |-> 0,
              plus |-> IF w.final = <<>> THEN NULL ELSE buf(w.final),
              minus |-> IF old = NULL \/ w.minus = <<>> THEN NULL ELSE buf(w.minus),
              final |-> buf(w.final)]

\* _delta_step_calc: the buffers take their header from the new vector; a
\* plus or minus buffer without items is destroyed, the minus buffer only
\* exists when there is an old value
_delta_step_calc(op, old, new) ==
    LET w == DeltaWalk(op, VvalueItems(old), new.data)
        buf(items) == [new EXCEPT !.vector = TRUE, !.data = items]
    IN  IF w.r < 0
        THEN [r |-> -1, plus |-> NULL, minus |-> NULL, final |-> NULL]
        ELSE [r |-> 0,
              plus |-> IF w.plus = <<>> THEN NULL ELSE buf(w.plus),
              minus |-> IF old = NULL \/ w.minus = <<>> THEN NULL ELSE buf(w.minus),
              final |-> buf(w.final)]

\* _kv_cb_delta_step committing the new vector as it was passed in
_kv_cb_delta_step_new_stored(op, old, new) ==
    LET delta == _delta_step_calc(op, old, new)
    IN  [commit |-> delta.r >= 0 /\ delta.final # NULL, new |-> new, delta |-> delta]

\* _kv_cb_delta_step: commits the final vector
_kv_cb_delta_step(op, old, new) ==
    LET delta == _delta_step_calc(op, old, new)
    IN  [commit |-> delta.r >= 0 /\ delta.final # NULL, new |-> delta.final, delta |-> delta]

\* _delta_cross_bitmap_calc: the items of two sorted vectors that are left
\* after the items found in both are struck out
RECURSIVE _delta_cross_bitmap_calc(_, _)
_delta_cross_bitmap_calc(old, new) ==
    IF old = <<>> \/ new = <<>> THEN [old |-> old, new |-> new]
    ELSE LET cmp_result == strcmp(Head(old), Head(new))
         IN  IF cmp_result < 0
             THEN LET c == _delta_cross_bitmap_calc(Tail(old), new)
                  IN  [c EXCEPT !.old = <<Head(old)>> \o @]
             ELSE IF cmp_result > 0
             THEN LET c == _delta_cross_bitmap_calc(old, Tail(new))
                  IN  [c EXCEPT !.new = <<Head(new)>> \o @]
             ELSE _delta_cross_bitmap_calc(Tail(old), Tail(new))

\* _delta_abs_calc: the absolute delta against the "+" and "-" records
\* already stored for the key
_delta_abs_calc(st, cur_key_spec, vheader, delta) ==
    IF delta.plus = NULL /\ delta.minus = NULL
    THEN [plus |-> NULL, minus |-> NULL]
    ELSE LET old_plus == kv_store_get_value(st, _compose_key([cur_key_spec EXCEPT !.op = KV_OP_PLUS]))
             old_minus == kv_store_get_value(st, _compose_key([cur_key_spec EXCEPT !.op = KV_OP_MINUS]))
             cross1 == IF delta.minus # NULL
                       THEN _delta_cross_bitmap_calc(VvalueItems(old_plus), delta.minus.data)
                       ELSE [old |-> VvalueItems(old_plus), new |-> <<>>]
             cross2 == IF delta.plus # NULL
                       THEN _delta_cross_bitmap_calc(VvalueItems(old_minus), delta.plus.data)
                       ELSE [old |-> VvalueItems(old_minus), new |-> <<>>]
             buf(items) == [vheader EXCEPT !.vector = TRUE, !.data = qsort(items)]
         IN  [plus |-> IF old_plus = NULL /\ delta.plus = NULL THEN NULL
                       ELSE buf(cross1.old \o cross2.new),
              minus |-> IF old_minus = NULL /\ delta.minus = NULL THEN NULL
                        ELSE buf(cross1.new \o cross2.old)]

\* struct kv_update_arg together with the store it updates; crashed is set
\* when the process has died in the update.  depth is the number of
\* _kv_delta_set calls on the stack and nested lists, for every call made
\* from _delta_update, its depth and the flags of its delta
UpdateArg(st, owner, ret_code) ==
    [st |-> st, owner |-> owner, ret_code |-> ret_code, crashed |-> FALSE,
     depth |-> 1, nested |-> <<>>]

\* struct kv_rel_spec before any delta is calculated
RelSpec(op, flags, cur_key_spec, rel_key_spec) ==
    [delta |-> [op |-> op, flags |-> flags, plus |-> NULL, minus |-> NULL, final |-> NULL],
     abs_delta |-> [plus |-> NULL, minus |-> NULL],
     cur_key_spec |-> cur_key_spec, rel_key_spec |-> rel_key_spec]

\* sid_buffer_get_data on a NULL buffer is undefined: the process dies, or
\* the size it leaves behind reads as zero
NullBufferOutcomes == {"crash", "zero"}

RECURSIVE _kv_delta_set(_, _, _, _, _, _)
RECURSIVE _delta_update(_, _, _, _, _, _)
RECURSIVE DeltaUpdateRel(_, _, _, _, _, _)

\* the loop of _delta_update, but with the reciprocal updates asking for
\* reciprocal updates themselves
DeltaUpdateRel_with_rel(items, rel_vvalue, update_arg, rel_spec, index, ub) ==
    LET Next(s) == DeltaUpdateRel(Tail(items), rel_vvalue, s.update_arg, rel_spec, index, ub)
        Enter(spec) ==
            [update_arg EXCEPT
                 !.depth = @ + 1,
                 !.nested = Append(@, [depth |-> update_arg.depth + 1,
                                       flags |-> spec.delta.flags])]
        Leave(s) == [s EXCEPT !.update_arg.depth = @ - 1]
        Set(spec) == Next(Leave(_kv_delta_set(_compose_key(spec.cur_key_spec), rel_vvalue,
                                              Enter(spec), spec, index, ub)))
        Item(ns_part) ==
            IF ns_part = NULL_STR THEN [update_arg |-> update_arg, r |-> -1]
            ELSE Set([rel_spec EXCEPT !.cur_key_spec.ns_part = ns_part,
                                      !.delta.flags = {DELTA_WITH_DIFF, DELTA_WITH_REL}])
    IN  IF items = <<>> \/ update_arg.crashed THEN [update_arg |-> update_arg, r |-> 0]
        ELSE Item(_copy_ns_part_from_key(Head(items)))

\* the loop of _delta_update over the items of the delta: the reciprocal
\* record of each item gets the prefix of the current key added or removed
DeltaUpdateRel(items, rel_vvalue, update_arg, rel_spec, index, ub) ==
    LET Next(s) == DeltaUpdateRel(Tail(items), rel_vvalue, s.update_arg, rel_spec, index, ub)
        Enter(spec) ==
            [update_arg EXCEPT
                 !.depth = @ + 1,
                 !.nested = Append(@, [depth |-> update_arg.depth + 1,
                                       flags |-> spec.delta.flags])]
        Leave(s) == [s EXCEPT !.update_arg.depth = @ - 1]
        Set(spec) == Next(Leave(_kv_delta_set(_compose_key(spec.cur_key_spec), rel_vvalue,
                                              Enter(spec), spec, index, ub)))
        Item(ns_part) ==
            IF ns_part = NULL_STR THEN [update_arg |-> update_arg, r |-> -1]
            ELSE Set([rel_spec EXCEPT !.cur_key_spec.ns_part = ns_part])
    IN  IF items = <<>> \/ update_arg.crashed THEN [update_arg |-> update_arg, r |-> 0]
        ELSE Item(_copy_ns_part_from_key(Head(items)))

\* _delta_update: stores the absolute delta under the "+" or "-" key and,
\* with DELTA_WITH_REL, updates the reciprocal records
_delta_update(vheader, op, update_arg, rel_spec, index, ub) ==
    LET Rel(delta_vvalue, arg1) ==
            IF delta_vvalue # NULL /\ DELTA_WITH_REL \in rel_spec.delta.flags
            THEN DeltaUpdateRel(
                     delta_vvalue.data,
                     Value(vheader.seqnum, value_flags_no_sync, update_arg.owner, TRUE,
                           <<_compose_key_prefix(rel_spec.cur_key_spec)>>),
                     arg1,
                     RelSpec(op, {DELTA_WITH_DIFF}, rel_spec.rel_key_spec, rel_spec.cur_key_spec),
                     index, ub)
            ELSE [update_arg |-> arg1, r |-> -1]
        Indexed(key, u, st1) ==
            [update_arg EXCEPT
                 !.st = IF index THEN _manage_kv_index(st1, u.ret_code, key) ELSE st1,
                 !.ret_code = u.ret_code]
        Stored(delta_vvalue, key, u) ==
            Rel(delta_vvalue, Indexed(key, u, kv_store_set_value(update_arg.st, key, u)))
        Store(abs_delta_vvalue, delta_vvalue, key) ==
            Stored(delta_vvalue, key,
                   _kv_cb_overwrite(kv_store_get_value(update_arg.st, key),
                                    [abs_delta_vvalue EXCEPT !.flags = value_flags_sync]))
        Update(abs_delta_vvalue, delta_vvalue) ==
            IF op \notin {KV_OP_PLUS, KV_OP_MINUS} THEN [update_arg |-> update_arg, r |-> -1]
            ELSE IF abs_delta_vvalue = NULL THEN [update_arg |-> update_arg, r |-> 0]
            ELSE IF delta_vvalue = NULL /\ ub = "crash"
            THEN [update_arg |-> [update_arg EXCEPT !.crashed = TRUE], r |-> -1]
            ELSE Store(abs_delta_vvalue, delta_vvalue,
                       _compose_key([rel_spec.cur_key_spec EXCEPT !.op = op]))
    IN  Update(IF op = KV_OP_PLUS THEN rel_spec.abs_delta.plus ELSE rel_spec.abs_delta.minus,
               IF op = KV_OP_PLUS THEN rel_spec.delta.plus ELSE rel_spec.delta.minus)

\* _kv_delta_set: stores the final vector of the delta step, manages the
\* index with whatever update_arg.ret_code holds, then the absolute delta
_kv_delta_set(key, vvalue, update_arg, rel_spec, index, ub) ==
    LET Result(m) == [update_arg |-> m.update_arg, r |-> IF m.r < 0 THEN -1 ELSE 0]
        Minus(p, spec) ==
            IF p.r < 0 THEN [update_arg |-> p.update_arg, r |-> -1]
            ELSE Result(_delta_update(vvalue, KV_OP_MINUS, p.update_arg, spec, index, ub))
        Plus(arg1, spec) ==
            Minus(_delta_update(vvalue, KV_OP_PLUS, arg1, spec, index, ub), spec)
        Diff(d, arg1) ==
            IF rel_spec.delta.flags \cap {DELTA_WITH_DIFF, DELTA_WITH_REL} = {}
            THEN [update_arg |-> arg1, r |-> 0]
            ELSE Plus(arg1,
                      [rel_spec EXCEPT
                           !.delta.plus = d.delta.plus, !.delta.minus = d.delta.minus,
                           !.delta.final = d.delta.final,
                           !.abs_delta = _delta_abs_calc(arg1.st, rel_spec.cur_key_spec,
                                                         vvalue, d.delta)])
        Indexed(st1) ==
            [update_arg EXCEPT
                 !.st = IF index THEN _manage_kv_index(st1, update_arg.ret_code, key) ELSE st1]
        Step(d) ==
            IF ~d.commit THEN [update_arg |-> update_arg, r |-> -1]
            ELSE Diff(d, Indexed(kv_store_set_value(update_arg.st, key, d)))
    IN  Step(_kv_cb_delta_step(rel_spec.delta.op, kv_store_get_value(update_arg.st, key), vvalue))

\* _handle_current_dev_for_group: the current device is added to (KV_OP_PLUS)
\* or removed from (KV_OP_MINUS) the group; it returns -1 whatever happens
_handle_current_dev_for_group(st, mod, dev_id, seqnum, group_ns, group_id, op, ub) ==
    LET Result(cur_key_spec, rel_key_spec, s) ==
            [st |-> s.update_arg.st, r |-> -1, crashed |-> s.update_arg.crashed,
             nested |-> s.update_arg.nested,
             key |-> _compose_key(cur_key_spec), rel_key |-> _compose_key(rel_key_spec),
             key_prefix |-> _compose_key_prefix(cur_key_spec),
             rel_key_prefix |-> _compose_key_prefix(rel_key_spec)]
        Set(cur_key_spec, rel_key_spec) ==
            Result(cur_key_spec, rel_key_spec,
                   _kv_delta_set(_compose_key(cur_key_spec),
                                 Value(seqnum, value_flags_no_sync, OWNER_CORE, TRUE,
                                       <<_compose_key_prefix(rel_key_spec)>>),
                                 UpdateArg(st, OWNER_CORE, KV_INDEX_NOOP),
                                 RelSpec(op, {DELTA_WITH_DIFF, DELTA_WITH_REL},
                                         cur_key_spec, rel_key_spec),
                                 TRUE, ub))
    IN  Set(KeySpec(KV_OP_SET, KV_KEY_DOM_USER, group_ns, _get_ns_part(mod, dev_id, group_ns),
                    group_id, ID_NULL, KV_KEY_GEN_GROUP_MEMBERS),
            KeySpec(KV_OP_SET, ID_NULL, KV_NS_DEVICE, _get_ns_part(mod, dev_id, KV_NS_DEVICE),
                    ID_NULL, ID_NULL, KV_KEY_GEN_GROUP_IN))

(***************************************************************************)
(* Export from the worker's snapshot and merge into the main store         *)
(***************************************************************************)

\* generic flags for all commands
CMD_KV_IMPORT_UDEV == 1
CMD_KV_EXPORT_UDEV_TO_RESBUF == 2
CMD_KV_EXPORT_UDEV_TO_EXPBUF == 4
CMD_KV_EXPORT_SID_TO_RESBUF == 8
CMD_KV_EXPORT_SID_TO_EXPBUF == 16
CMD_KV_EXPORT_SYNC == 32
CMD_KV_EXPORT_PERSISTENT == 64
CMD_KV_EXPBUF_TO_FILE == 128
CMD_KV_EXPBUF_TO_MAIN == 256
CMD_KV_EXPECT_EXPBUF_ACK == 512
CMD_SESSION_ID == 1024

\* struct sid_buffer of an export buffer: NO_BUFFER is the NULL pointer
NO_BUFFER == [exists |-> FALSE, records |-> <<>>]
Buffer(records) == [exists |-> TRUE, records |-> records]

\* kv_store_iter_next: the keys of a set in the order of the store
RECURSIVE KeysInOrder(_)
KeysInOrder(S) ==
    IF S = {} THEN <<>>
    ELSE LET k == CHOOSE x \in S : \A y \in S : strcmp(x, y) <= 0
         IN  <<k>> \o KeysInOrder(S \ {k})

\* the loop of _build_cmd_kv_buffers over the iterated records: KV_SYNC is
\* cleared in the stored record, udev records go to the response buffer, the
\* others are serialized to the export buffer
RECURSIVE BuildKvBuffersLoop(_, _, _, _, _)
BuildKvBuffersLoop(keys, st, flags, res_buf, export_buf) ==
    IF keys = <<>>
    THEN [r |-> 0, st |-> st, res_buf |-> res_buf, exp_buf |-> Buffer(export_buf)]
    ELSE IF Head(keys) \notin DOMAIN st.rec
    THEN BuildKvBuffersLoop(Tail(keys), st, flags, res_buf, export_buf)
    ELSE LET key == Head(keys)
             value == [st.rec[key] EXCEPT !.flags = @ \ {KV_SYNC}]
             st1 == [st EXCEPT !.rec[key] = value]
             record == [key |-> key, value |-> value]
         IN  IF CMD_KV_EXPORT_PERSISTENT \in flags /\ KV_PERSISTENT \notin value.flags
             THEN BuildKvBuffersLoop(Tail(keys), st1, flags, res_buf, export_buf)
             ELSE IF _get_ns_from_key(key) = KV_NS_UDEV
             THEN IF flags \cap {CMD_KV_EXPORT_UDEV_TO_RESBUF, CMD_KV_EXPORT_UDEV_TO_EXPBUF} = {}
                  THEN BuildKvBuffersLoop(Tail(keys), st1, flags, res_buf, export_buf)
                  ELSE IF value.vector
                  THEN [r |-> -1, st |-> st1, res_buf |-> res_buf, exp_buf |-> NO_BUFFER]
                  ELSE BuildKvBuffersLoop(
                           Tail(keys), st1, flags,
                           IF CMD_KV_EXPORT_UDEV_TO_RESBUF \in flags
                           THEN Append(res_buf, [key |-> _get_key_part(key, KEY_PART_CORE),
                                                 value |-> value.data])
                           ELSE res_buf,
                           IF CMD_KV_EXPORT_UDEV_TO_EXPBUF \in flags
                           THEN Append(export_buf, record) ELSE export_buf)
             ELSE IF flags \cap {CMD_KV_EXPORT_SID_TO_RESBUF, CMD_KV_EXPORT_SID_TO_EXPBUF} = {}
             THEN BuildKvBuffersLoop(Tail(keys), st1, flags, res_buf, export_buf)
             ELSE BuildKvBuffersLoop(Tail(keys), st1, flags, res_buf, Append(export_buf, record))

\* _build_cmd_kv_buffers: with CMD_KV_EXPORT_SYNC the iteration is over the
\* '>' aliases, otherwise over every key of the store
_build_cmd_kv_buffers(st, flags) ==
    IF flags \cap {CMD_KV_EXPORT_UDEV_TO_RESBUF, CMD_KV_EXPORT_UDEV_TO_EXPBUF,
                   CMD_KV_EXPORT_SID_TO_RESBUF, CMD_KV_EXPORT_SID_TO_EXPBUF} = {}
    THEN [r |-> 0, st |-> st, res_buf |-> <<>>, exp_buf |-> NO_BUFFER]
    ELSE BuildKvBuffersLoop(
             IF CMD_KV_EXPORT_SYNC \in flags THEN KeysInOrder(st.alias)
             ELSE KeysInOrder(DOMAIN st.rec) \o KeysInOrder(st.alias),
             st, flags, <<>>, <<>>)

\* _kv_cb_main_unset
_kv_cb_main_unset(old, owner) ==
    IF old = NULL THEN [commit |-> TRUE, ret_code |-> "-EREMOTEIO"]
    ELSE IF _flags_indicate_mod_owned(old.flags) /\ old.owner # owner
    THEN [commit |-> FALSE, ret_code |-> "EBUSY"]
    ELSE [commit |-> TRUE, ret_code |-> "-EREMOTEIO"]

\* _kv_cb_main_set
_kv_cb_main_set(old, new) ==
    LET r == old = NULL \/ (new.seqnum >= old.seqnum /\ _kv_cb_overwrite(old, new).commit)
    IN  [commit |-> r, new |-> new,
         ret_code |-> IF old = NULL \/ new.seqnum < old.seqnum THEN "-EREMOTEIO"
                      ELSE _kv_cb_overwrite(old, new).ret_code]

\* one record of the export buffer merged into the main store by
\* _sync_main_kv_store; with it what was stored before and whether the
\* update callback committed
SyncMainRecord(st, record) ==
    LET value == record.value
        Done(r, st1, unset, op, key, old, applied) ==
            [r |-> r, st |-> st1,
             log |-> [key |-> key, op |-> op, unset |-> unset, old |-> old,
                      new |-> value, applied |-> applied]]
        Unset(op, key, old, u) ==
            Done(0, kv_store_unset(st, key, u), TRUE, op, key, old, u.commit)
        Set(op, key, old, u) ==
            Done(0, kv_store_set_value(st, key, u), FALSE, op, key, old, u.commit)
        Delta(op, key, old, s) ==
            Done(0, s.update_arg.st, FALSE, op, key, old, s.r = 0)
        Merge(unset, op, key, old) ==
            IF op = KV_OP_ILLEGAL THEN Done(-1, st, unset, op, key, old, FALSE)
            ELSE IF unset THEN Unset(op, key, old, _kv_cb_main_unset(old, value.owner))
            ELSE IF op = KV_OP_SET THEN Set(op, key, old, _kv_cb_main_set(old, value))
            ELSE \* no delta flags: no absolute delta, so no buffer is read that may be NULL
                 Delta(op, key, old,
                       _kv_delta_set(key, value, UpdateArg(st, value.owner, "-EREMOTEIO"),
                                     RelSpec(op, DELTA_NO_FLAGS, NULL, NULL), FALSE, "crash"))
        Keyed(unset, op, key) == Merge(unset, op, key, kv_store_get_value(st, key))
        Op(unset, op) ==
            Keyed(unset, op,
                  IF op \in {KV_OP_PLUS, KV_OP_MINUS} THEN Tail(record.key) ELSE record.key)
    IN  Op(IF value.vector
           THEN KV_MOD_RESERVED \notin value.flags /\ value.data = <<>>
           ELSE value.flags # {KV_MOD_RESERVED} /\ value.data = <<>>,
           IF value.vector THEN _get_op_from_key(record.key) ELSE KV_OP_SET)

\* _sync_main_kv_store: the records of the export buffer are merged one by
\* one; a record that cannot be merged ends the merge with the earlier
\* records applied
RECURSIVE SyncMainLoop(_, _, _)
SyncMainLoop(st, records, log) ==
    LET Next(s) ==
            IF s.r < 0 THEN [r |-> -1, st |-> s.st, log |-> Append(log, s.log)]
            ELSE SyncMainLoop(s.st, Tail(records), Append(log, s.log))
    IN  IF records = <<>> THEN [r |-> 0, st |-> st, log |-> log]
        ELSE Next(SyncMainRecord(st, Head(records)))

_sync_main_kv_store(st, exp_buf) == SyncMainLoop(st, exp_buf.records, <<>>)

(***************************************************************************)
(* Operations on the store                                                 *)
(***************************************************************************)

\* module names, devices (major_minor), key cores, values, group ids
Mods == {<<"a">>, <<"b">>}
Devs == {<<"8", "_", "0">>, <<"8", "_", "1">>}
KeyCores == {<<"k">>}
Values == {<<>>, <<"v">>}
GroupIds == {<<"g">>}
Seqnums == 1..MaxSeq

\* the fields of a udev environment and the environments of a request
EnvFields == {<<"k", "=", "v">>, <<"k", "=", "w">>, <<"A", "=", "v", "=">>, <<"A", "=">>, <<"A">>}
Envs == {<<>>} \cup {<<f>> : f \in EnvFields} \cup {<<f, g>> : f, g \in EnvFields}

\* the flags modules pass to sid_ucmd_set_kv
SetFlags ==
    {{KV_SYNC}, {KV_MOD_PRIVATE}, {KV_MOD_PROTECTED}, {KV_MOD_RESERVED},
     {KV_SYNC, KV_MOD_PROTECTED, KV_MOD_RESERVED}}

\* _client_cmd_regs[SID_CMD_SCAN].flags
SCAN_FLAGS ==
    {CMD_KV_IMPORT_UDEV, CMD_KV_EXPORT_UDEV_TO_RESBUF, CMD_KV_EXPORT_SID_TO_EXPBUF,
     CMD_KV_EXPBUF_TO_MAIN, CMD_KV_EXPORT_SYNC, CMD_KV_EXPECT_EXPBUF_ACK, CMD_SESSION_ID}

NoSnap == [state |-> "none", st |-> EmptyStore, seqnum |-> 0, dev_id |-> ID_NULL, nops |-> 0,
           forks |-> 0]

\* a worker is forked for a command on a device: its store is a snapshot of
\* the main store
Fork(seqnum, dev_id) ==
    /\ snap.state # "running"
    /\ snap.forks < MaxForks
    /\ snap' = [state |-> "running", st |-> main_kv, seqnum |-> seqnum, dev_id |-> dev_id,
                nops |-> 0, forks |-> snap.forks + 1]
    /\ kvev' = [op |-> "fork"]
    /\ UNCHANGED <<main_kv, exports, pvars>>

\* sid_ucmd_get_kv called by a module in the worker
sid_ucmd_get_kv(mod, ns, key) ==
    /\ snap.state = "running"
    /\ IF ns = KV_NS_UNDEFINED \/ key = <<>> \/ Head(key) = "#"
       THEN kvev' = [op |-> "get", checked |-> FALSE, owner |-> mod, stored |-> NULL,
                     returned |-> FALSE, value |-> <<>>, flags_read |-> FALSE]
       ELSE LET Done(g, stored) ==
                    kvev' = [op |-> "get", checked |-> TRUE, owner |-> mod, stored |-> stored,
                             returned |-> g.returned, value |-> g.value,
                             flags_read |-> g.flags_read]
            IN  Done(_do_sid_ucmd_get_kv(snap.st, mod, snap.dev_id, KV_KEY_DOM_USER, ns, key),
                     kv_store_get_value(
                         snap.st,
                         _compose_key(KeySpec(KV_OP_SET, KV_KEY_DOM_USER, ns,
                                              _get_ns_part(mod, snap.dev_id, ns), ID_NULL,
                                              ID_NULL, key))))
    /\ UNCHANGED <<main_kv, snap, exports, pvars>>

\* sid_ucmd_set_kv called by a module in the worker
sid_ucmd_set_kv(mod, ns, key, value, flags) ==
    /\ snap.state = "running"
    /\ snap.nops < MaxOps
    /\ IF ns = KV_NS_UNDEFINED \/ key = <<>> \/ Head(key) = "#"
       THEN /\ snap' = [snap EXCEPT !.nops = @ + 1]
            /\ kvev' = [op |-> "set", checked |-> FALSE, key |-> <<>>, owner |-> mod,
                        old |-> NULL, committed |-> FALSE, ret_code |-> "none"]
       ELSE LET Done(s) ==
                    /\ snap' = [snap EXCEPT !.st = s.st, !.nops = @ + 1]
                    /\ kvev' = [op |-> "set", checked |-> s.checked, key |-> s.key, owner |-> mod,
                                old |-> kv_store_get_value(snap.st, s.key),
                                committed |-> s.committed, ret_code |-> s.ret_code]
            IN  Done(_do_sid_ucmd_set_kv(
                         snap.st, mod, snap.dev_id, snap.seqnum, KV_KEY_DOM_USER, ns, key,
                         IF ns = KV_NS_UDEV THEN flags \cup {KV_SYNC, KV_PERSISTENT} ELSE flags,
                         value))
    /\ UNCHANGED <<main_kv, exports, pvars>>

\* sid_ucmd_mod_reserve_kv (unset = FALSE) and sid_ucmd_mod_unreserve_kv
\* (unset = TRUE) called by a module in the worker
sid_ucmd_mod_reserve_kv(mod, ns, key, unset) ==
    /\ snap.state = "running"
    /\ snap.nops < MaxOps
    /\ key # <<>> /\ Head(key) # "#"
    /\ LET Done(s) ==
               /\ snap' = [snap EXCEPT !.st = s.st, !.nops = @ + 1]
               /\ kvev' = [op |-> "reserve", key |-> s.key, owner |-> mod, unset |-> unset,
                           r |-> s.r, ret_code |-> s.ret_code,
                           old |-> kv_store_get_value(snap.st, s.key)]
       IN  Done(_do_sid_ucmd_mod_reserve_kv(snap.st, mod, ns, key, unset, TRUE))
    /\ UNCHANGED <<main_kv, exports, pvars>>

\* sid_ucmd_group_add_current_dev (op = KV_OP_PLUS) and
\* sid_ucmd_group_remove_current_dev (op = KV_OP_MINUS)
sid_ucmd_group_handle_current_dev(mod, group_ns, group_id, op, ub) ==
    /\ snap.state = "running"
    /\ snap.nops < MaxOps
    /\ group_ns # KV_NS_UNDEFINED /\ group_id # <<>>
    /\ LET Done(s) ==
               /\ snap' = [snap EXCEPT !.st = s.st, !.nops = @ + 1,
                                       !.state = IF s.crashed THEN "crashed" ELSE @]
               /\ kvev' = [op |-> "group", delta_op |-> op, key |-> s.key, rel_key |-> s.rel_key,
                           key_prefix |-> s.key_prefix, rel_key_prefix |-> s.rel_key_prefix,
                           crashed |-> s.crashed, r |-> s.r, nested |-> s.nested]
       IN  Done(_handle_current_dev_for_group(snap.st, mod, snap.dev_id, snap.seqnum,
                                              group_ns, group_id, op, ub))
    /\ UNCHANGED <<main_kv, exports, pvars>>

\* sid_ucmd_group_create: a header-only vector is written under the group's
\* key if the key holds no record yet
sid_ucmd_group_create(mod, group_ns, group_id) ==
    /\ snap.state = "running"
    /\ snap.nops < MaxOps
    /\ LET key == _compose_key(KeySpec(KV_OP_SET, ID_NULL, group_ns,
                                       _get_ns_part(mod, snap.dev_id, group_ns), group_id,
                                       ID_NULL, KV_KEY_GEN_GROUP_MEMBERS))
           Done(r, st) ==
               /\ snap' = [snap EXCEPT !.st = st, !.nops = @ + 1]
               /\ kvev' = [op |-> "group_create", owner |-> mod, group_ns |-> group_ns,
                           group_id |-> group_id, key |-> key, r |-> r]
           Set(u) ==
               IF u.commit
               THEN Done(0, _manage_kv_index(kv_store_set_value(snap.st, key, u), u.ret_code, key))
               ELSE Done(-1, snap.st)
       IN  IF group_ns = KV_NS_UNDEFINED \/ group_id = <<>>
           THEN Done(-EINVAL, snap.st)
           ELSE Set(_kv_cb_write_new_only(kv_store_get_value(snap.st, key),
                                          Value(snap.seqnum, value_flags_sync, OWNER_CORE, TRUE,
                                                <<>>),
                                          KV_INDEX_NOOP))
    /\ UNCHANGED <<main_kv, exports, pvars>>

\* sid_ucmd_group_destroy: the record under the group's key is looked up; a
\* vector with items is destroyed only with force; the vector is then set to
\* a header-only one, with the reciprocal updates of a delta
sid_ucmd_group_destroy(mod, group_ns, group_id, force, ub) ==
    /\ snap.state = "running"
    /\ snap.nops < MaxOps
    /\ LET cur_key_spec == KeySpec(KV_OP_SET, ID_NULL, group_ns,
                                   _get_ns_part(mod, snap.dev_id, group_ns), group_id, ID_NULL,
                                   KV_KEY_GEN_GROUP_MEMBERS)
           rel_key_spec == KeySpec(KV_OP_SET, ID_NULL, KV_NS_UNDEFINED, ID_NULL, ID_NULL,
                                   ID_NULL, KV_KEY_GEN_GROUP_IN)
           key == _compose_key(cur_key_spec)
           Done(r, st, crashed, nested) ==
               /\ snap' = [snap EXCEPT !.st = st, !.nops = @ + 1,
                                       !.state = IF crashed THEN "crashed" ELSE @]
               /\ kvev' = [op |-> "group_destroy", owner |-> mod, group_ns |-> group_ns,
                           group_id |-> group_id, force |-> force, key |-> key, r |-> r,
                           before |-> snap.st, crashed |-> crashed, nested |-> nested]
           Set(s) == Done(IF s.r < 0 THEN s.r ELSE 0, s.update_arg.st, s.update_arg.crashed,
                          s.update_arg.nested)
       IN  IF group_ns = KV_NS_UNDEFINED \/ group_id = <<>>
           THEN Done(-EINVAL, snap.st, FALSE, <<>>)
           ELSE IF kv_store_get_value(snap.st, key) = NULL
           THEN Done(-1, snap.st, FALSE, <<>>)
           ELSE IF VvalueItems(kv_store_get_value(snap.st, key)) # <<>> /\ ~force
           THEN Done(-ENOTEMPTY, snap.st, FALSE, <<>>)
           ELSE Set(_kv_delta_set(key,
                                  Value(snap.seqnum, DEFAULT_VALUE_FLAGS_CORE \ {KV_MOD_RESERVED},
                                        OWNER_CORE, TRUE, <<>>),
                                  UpdateArg(snap.st, OWNER_CORE, KV_INDEX_NOOP),
                                  RelSpec(KV_OP_SET, {DELTA_WITH_DIFF, DELTA_WITH_REL},
                                          cur_key_spec, rel_key_spec),
                                  TRUE, ub))
    /\ UNCHANGED <<main_kv, exports, pvars>>

\* _init_command of a command with CMD_KV_IMPORT_UDEV: the udev environment
\* of the request is imported into the snapshot before any module runs.  The
\* environment holds no SEQNUM field, so req_env.dev.udev.seqnum is still 0
\* when the headers of the values are prepared.
ImportUdevEnv(env) ==
    /\ snap.state = "running"
    /\ snap.nops = 0
    /\ LET Done(e) ==
               /\ snap' = [snap EXCEPT !.st = e.st, !.nops = @ + 1,
                                       !.state = IF e.r < 0 THEN "failed" ELSE @]
               /\ kvev' = [op |-> "import", env |-> env, r |-> e.r, n |-> e.n,
                           before |-> snap.st]
       IN  Done(_parse_cmd_udev_env(snap.st, snap.dev_id, 0, env))
    /\ UNCHANGED <<main_kv, exports, pvars>>

\* the worker's command handler builds the buffers of the SCAN command in
\* state CMD_EXEC_FINISHED; the export buffer goes to the parent
BuildCmdKvBuffers ==
    /\ snap.state = "running"
    /\ LET Done(b) ==
               /\ snap' = [snap EXCEPT !.st = b.st, !.state = "built"]
               /\ exports' = IF b.r = 0 /\ b.exp_buf.records # <<>>
                             THEN exports \cup {b.exp_buf} ELSE exports
               /\ kvev' = [op |-> "build", r |-> b.r]
       IN  Done(_build_cmd_kv_buffers(snap.st, SCAN_FLAGS))
    /\ UNCHANGED <<main_kv, pvars>>

\* the parent's _worker_proxy_recv_system_cmd_sync merges an export buffer
SyncMainKvStore(exp_buf) ==
    /\ exp_buf \in exports
    /\ LET Done(s) ==
               /\ main_kv' = s.st
               /\ kvev' = [op |-> "sync", r |-> s.r, log |-> s.log]
       IN  Done(_sync_main_kv_store(main_kv, exp_buf))
    /\ exports' = exports \ {exp_buf}
    /\ UNCHANGED <<snap, pvars>>

InitKvVars ==
    /\ main_kv = EmptyStore
    /\ snap = NoSnap
    /\ exports = {}
    /\ kvev = [op |-> "init"]


(***************************************************************************)
(* Commands, connections and the handlers of the worker and of the proxy   *)
(***************************************************************************)

\* cmd_state_t
CMD_INITIALIZING == "CMD_INITIALIZING"
CMD_EXEC_SCHEDULED == "CMD_EXEC_SCHEDULED"
CMD_EXECUTING == "CMD_EXECUTING"
CMD_EXPECTING_DATA == "CMD_EXPECTING_DATA"
CMD_EXEC_FINISHED == "CMD_EXEC_FINISHED"
CMD_EXPECTING_EXPBUF_ACK == "CMD_EXPECTING_EXPBUF_ACK"
CMD_EXPBUF_ACKED == "CMD_EXPBUF_ACKED"
CMD_OK == "CMD_OK"
CMD_ERROR == "CMD_ERROR"

\* no command context
CMD_NONE == "none"

\* the client commands a connection asks for
SID_CMD_SCAN == "c-scan"
SID_CMD_VERSION == "c-version"
SID_CMD_RESOURCES == "c-resource"
ClientCmds == {SID_CMD_SCAN, SID_CMD_VERSION, SID_CMD_RESOURCES}

\* the protocol version of a request, relative to SID_PROTOCOL
PROT_LOWER == "lower"
SID_PROTOCOL == "SID_PROTOCOL"
PROT_HIGHER == "higher"
ProtVersions == {PROT_LOWER, SID_PROTOCOL, PROT_HIGHER}

\* _get_cmd_reg(ucmd_ctx)->flags for a client command
cmd_reg_flags(type) == IF type = SID_CMD_SCAN THEN SCAN_FLAGS ELSE {}

\* no command resource
NoCmd ==
    [exists |-> FALSE, type |-> "none", state |-> CMD_NONE, resp |-> FALSE,
     cmd_handler_es |-> FALSE, main_res_mem |-> FALSE]

\* a message on the channel between proxy and worker
Msg(chan_cmd, cat, sys_cmd, exp_buf) ==
    [cmd |-> chan_cmd, cat |-> cat, sys |-> sys_cmd, exp_buf |-> exp_buf]

\* the export of a worker that added device 8_0 to group g
SampleExport ==
    _build_cmd_kv_buffers(
        _handle_current_dev_for_group(EmptyStore, <<"a">>, <<"8", "_", "0">>, 1,
                                      KV_NS_GLOBAL, <<"g">>, KV_OP_PLUS, "crash").st,
        SCAN_FLAGS).exp_buf

\* the export buffers a SCAN command builds: without records and with records
ExportBuffers == {Buffer(<<>>), SampleExport}

\* the outcomes of a write through a pointer to freed or foreign memory
WildWriteOutcomes == {"crash", "none"}

\* _change_cmd_state
_change_cmd_state(c, state) == [c EXCEPT !.state = state]

\* a yield that does not look at parent_exited
worker_control_worker_yield_parent_unchecked(w, chan) ==
    [worker |-> w,
     chan |-> Append(chan, Msg(WORKER_CHANNEL_CMD_YIELD, "none", "none", NO_BUFFER))]

\* worker_control_worker_yield: YIELD to the proxy or, once the parent has
\* exited, SIGTERM raised in the worker; w is <<worker, chan_to_proxy>> of p
worker_control_worker_yield(w, chan) ==
    IF w.parent_exited = 0
    THEN [worker |-> w,
          chan |-> Append(chan, Msg(WORKER_CHANNEL_CMD_YIELD, "none", "none", NO_BUFFER))]
    ELSE [worker |-> [w EXCEPT !.signals = @ \cup {SIGTERM}], chan |-> chan]

\* _cmd_handler, label out: the state the command ends the handler in
CmdHandlerOut_ack_not_awaited(r, state) ==
    IF r < 0 THEN CMD_ERROR
    ELSE IF state \in {CMD_EXEC_FINISHED, CMD_EXPBUF_ACKED, CMD_EXPECTING_EXPBUF_ACK}
         THEN CMD_OK ELSE state
CmdHandlerOut(r, state) ==
    IF r < 0 THEN CMD_ERROR
    ELSE IF state \in {CMD_EXEC_FINISHED, CMD_EXPBUF_ACKED} THEN CMD_OK ELSE state

InitProcVars ==
    /\ worker_proxy = [p \in Workers |-> NoProxy]
    /\ worker = [p \in Workers |-> NoWorker]
    /\ chan_to_worker = [p \in Workers |-> <<>>]
    /\ chan_to_proxy = [p \in Workers |-> <<>>]
    /\ conn = [p \in Workers |-> "none"]
    /\ cmd = [p \in Workers |-> NoCmd]
    /\ now = 0
    /\ pev = [op |-> "init"]

\* CLOCK_MONOTONIC advances
Tick ==
    /\ now < MaxTime
    /\ now' = now + 1
    /\ pev' = [op |-> "tick"]
    /\ UNCHANGED <<worker_proxy, worker, chan_to_worker, chan_to_proxy, conn, cmd, kvars>>

\* _on_ubridge_interface_event: a client connects; _get_worker takes an idle
\* proxy or forks a new worker with the timeout spec of the worker control
\* resource, the connection is accepted and handed to the worker over the
\* channel.  d is the time the handler spends between creating the proxy and
\* sending.
_on_ubridge_interface_event(p, timeout_spec, accept_ok, d) ==
    /\ now + d <= MaxTime
    /\ IF worker_control_get_idle_worker # {}
       THEN /\ p \in worker_control_get_idle_worker
            /\ worker' = worker
       ELSE /\ worker_proxy[p].res = "none"
            /\ \A q \in Workers : q < p => worker_proxy[q].res # "none"
            /\ worker' = [worker EXCEPT ![p] = [NoWorker EXCEPT !.proc = "running"]]
    /\ LET wp == IF worker_proxy[p].res = "none"
                 THEN _init_worker_proxy(timeout_spec, now)
                 ELSE worker_proxy[p]
       IN  IF accept_ok
           THEN /\ worker_proxy' = [worker_proxy EXCEPT ![p] = ProxySend(wp)]
                /\ chan_to_worker' = [chan_to_worker EXCEPT ![p] =
                       Append(@, Msg(WORKER_CHANNEL_CMD_DATA_EXT, MSG_CATEGORY_CLIENT, "none",
                                     NO_BUFFER))]
           ELSE /\ worker_proxy' = [worker_proxy EXCEPT ![p] = wp]
                /\ UNCHANGED chan_to_worker
    /\ now' = now + d
    /\ pev' = [op |-> "interface", p |-> p, sent |-> accept_ok, at |-> now + d]
    /\ UNCHANGED <<chan_to_proxy, conn, cmd, kvars>>

\* _on_worker_proxy_timeout_event: the execution timeout of proxy p expires
_on_worker_proxy_timeout_event(p) ==
    /\ worker_proxy[p].res = "live"
    /\ worker_proxy[p].exec_timeout_es.armed
    /\ now >= worker_proxy[p].exec_timeout_es.deadline
    /\ worker_proxy' = [worker_proxy EXCEPT ![p] =
           [_change_worker_proxy_state(@, WORKER_STATE_TIMED_OUT) EXCEPT !.exec_timeout_es = NO_TIMER]]
    /\ worker' = [worker EXCEPT ![p] =
           IF worker_proxy[p].timeout_spec.signum # SIG_NONE
           THEN Kill(@, worker_proxy[p].timeout_spec.signum) ELSE @]
    /\ pev' = [op |-> "timeout", p |-> p, signum |-> worker_proxy[p].timeout_spec.signum,
               signals |-> worker[p].signals]
    /\ UNCHANGED <<chan_to_worker, chan_to_proxy, conn, cmd, now, kvars>>

\* _connection_cleanup: the connection resource is dropped with the command
\* resource below it, then the worker yields
_connection_cleanup(p) ==
    LET y == worker_control_worker_yield(worker[p], chan_to_proxy[p])
    IN  [conn |-> "closed", cmd |-> NoCmd, worker |-> y.worker, chan |-> y.chan]

\* _worker_recv_fn: the worker takes a message of the proxy off the channel.
\* read_ok: the read of the size of the passed memory succeeds; ub: the
\* outcome of _change_cmd_state on the worker resource when the command of an
\* ack is not found.
_worker_recv_fn(p, read_ok, ub) ==
    /\ worker[p].proc = "running"
    /\ chan_to_worker[p] # <<>>
    /\ LET m == Head(chan_to_worker[p])
           c == cmd[p]
       IN  /\ chan_to_worker' = [chan_to_worker EXCEPT ![p] = Tail(@)]
           /\ IF m.cat = MSG_CATEGORY_CLIENT
              THEN \* a connection resource for the passed socket
                   /\ conn' = [conn EXCEPT ![p] = "open"]
                   /\ pev' = [op |-> "worker_recv", p |-> p, changes |-> <<c.state>>]
                   /\ UNCHANGED <<cmd, worker>>
              ELSE IF m.sys = SYSTEM_CMD_SYNC
              THEN \* _worker_recv_system_cmd_sync
                   IF c.exists
                   THEN /\ cmd' = [cmd EXCEPT ![p] =
                               [_change_cmd_state(c, CMD_EXPBUF_ACKED) EXCEPT
                                   !.cmd_handler_es = TRUE]]
                        /\ pev' = [op |-> "worker_recv", p |-> p,
                                   changes |-> <<c.state, CMD_EXPBUF_ACKED>>]
                        /\ UNCHANGED <<conn, worker>>
                   ELSE /\ worker' = [worker EXCEPT ![p] =
                               IF ub = "crash" THEN [@ EXCEPT !.proc = "exited", !.signals = {}]
                               ELSE @]
                        /\ conn' = [conn EXCEPT ![p] = IF ub = "crash" THEN "closed" ELSE @]
                        /\ pev' = [op |-> "worker_recv", p |-> p, changes |-> <<c.state>>]
                        /\ UNCHANGED cmd
              ELSE \* _worker_recv_system_cmd_resources
                   IF read_ok /\ c.exists
                   THEN /\ cmd' = [cmd EXCEPT ![p] =
                               [_change_cmd_state(c, CMD_EXEC_SCHEDULED) EXCEPT
                                   !.cmd_handler_es = TRUE, !.main_res_mem = TRUE]]
                        /\ pev' = [op |-> "worker_recv", p |-> p,
                                   changes |-> <<c.state, CMD_EXEC_SCHEDULED>>]
                        /\ UNCHANGED <<conn, worker>>
                   ELSE /\ pev' = [op |-> "worker_recv", p |-> p, changes |-> <<c.state>>]
                        /\ UNCHANGED <<conn, cmd, worker>>
    /\ UNCHANGED <<worker_proxy, chan_to_proxy, now, kvars>>

\* _cmd_root_only[cmd]
_cmd_root_only(type) == type \in {SID_CMD_SCAN, SID_CMD_RESOURCES}

\* _socket_client_is_capable: root can run any command.  root: the peer
\* credentials of the socket give uid 0.
_socket_client_is_capable(root, type) == root \/ ~_cmd_root_only(type)

\* _check_msg for a message of category MSG_CATEGORY_CLIENT that holds a
\* whole header and arrives on a connection resource
_check_msg(root, type) == IF _socket_client_is_capable(root, type) THEN 0 ELSE -1

\* _reply_failure: for a protocol not above SID_PROTOCOL the header with
\* SID_CMD_STATUS_FAILURE is added to the buffer of the connection, and the
\* buffer is written to the socket only if adding the header has failed
_reply_failure(prot) ==
    IF prot \in {PROT_LOWER, SID_PROTOCOL}
    THEN LET add_r == 0
         IN  [r |-> add_r, written |-> add_r < 0]
    ELSE [r |-> -1, written |-> FALSE]

\* _on_connection_event: the client sends a request of the given type and
\* protocol version (EPOLLIN), closes the connection (EOF: a read of 0 bytes)
\* or the connection fails (EPOLLERR).  A connection carries one request.
\* root: the peer of the socket has uid 0.
_on_connection_event(p, revents, type, prot, root) ==
    /\ worker[p].proc = "running"
    /\ conn[p] \in {"open", "used"}
    /\ revents = "EPOLLIN" => conn[p] = "open"
    /\ IF revents = "EPOLLIN" /\ _check_msg(root, type) = 0 /\ prot = SID_PROTOCOL
       THEN \* _create_command_resource, _init_command
            /\ cmd' = [cmd EXCEPT ![p] =
                   [exists |-> TRUE, type |-> type, state |-> CMD_EXEC_SCHEDULED, resp |-> FALSE,
                    cmd_handler_es |-> TRUE, main_res_mem |-> FALSE]]
            /\ conn' = [conn EXCEPT ![p] = "used"]
            /\ pev' = [op |-> "connection", p |-> p, revents |-> revents,
                       changes |-> <<CMD_NONE, CMD_INITIALIZING, CMD_EXEC_SCHEDULED>>,
                       destroyed |-> FALSE, resp |-> FALSE,
                       type |-> type, prot |-> prot, root |-> root, replied |-> FALSE]
            /\ UNCHANGED <<worker, chan_to_proxy>>
       ELSE IF revents = "EPOLLIN" /\ _reply_failure(prot).r >= 0
       THEN \* _check_msg fails, or _init_command fails and frees the
            \* context; _reply_failure returns 0 and the buffer is reset
            /\ conn' = [conn EXCEPT ![p] = "used"]
            /\ pev' = [op |-> "connection", p |-> p, revents |-> revents,
                       changes |-> IF _check_msg(root, type) = 0
                                   THEN <<CMD_NONE, CMD_INITIALIZING>>
                                   ELSE <<CMD_NONE>>,
                       destroyed |-> (_check_msg(root, type) = 0), resp |-> FALSE,
                       type |-> type, prot |-> prot, root |-> root,
                       replied |-> _reply_failure(prot).written]
            /\ UNCHANGED <<cmd, worker, chan_to_proxy>>
       ELSE \* _connection_cleanup; with EPOLLIN, after _create_command_resource
            \* and _reply_failure have failed
            LET u == _connection_cleanup(p)
                created == revents = "EPOLLIN" /\ _check_msg(root, type) = 0
            IN  /\ conn' = [conn EXCEPT ![p] = u.conn]
                /\ cmd' = [cmd EXCEPT ![p] = u.cmd]
                /\ worker' = [worker EXCEPT ![p] = u.worker]
                /\ chan_to_proxy' = [chan_to_proxy EXCEPT ![p] = u.chan]
                /\ pev' = [op |-> "connection", p |-> p, revents |-> revents,
                           changes |-> IF created THEN <<CMD_NONE, CMD_INITIALIZING>>
                                       ELSE <<cmd[p].state>>,
                           destroyed |-> (created \/ cmd[p].exists),
                           resp |-> cmd[p].resp,
                           type |-> IF revents = "EPOLLIN" THEN type ELSE "none",
                           prot |-> IF revents = "EPOLLIN" THEN prot ELSE "none",
                           root |-> (revents = "EPOLLIN" /\ root),
                           replied |-> (revents = "EPOLLIN" /\ _reply_failure(prot).written)]
    /\ UNCHANGED <<worker_proxy, chan_to_worker, now, kvars>>

\* _on_worker_signal_event: SIGTERM ends the event loop and with it the worker
\* process; SIGUSR1 tells that the parent has exited
_on_worker_signal_event(p, signum) ==
    /\ worker[p].proc = "running"
    /\ signum \in worker[p].signals
    /\ IF signum = SIGTERM
       THEN /\ worker' = [worker EXCEPT ![p] = [@ EXCEPT !.proc = "exited", !.signals = {}]]
            /\ conn' = [conn EXCEPT ![p] = IF @ = "none" THEN @ ELSE "closed"]
            /\ cmd' = [cmd EXCEPT ![p] = NoCmd]
       ELSE /\ worker' = [worker EXCEPT ![p] =
                   [@ EXCEPT !.parent_exited = IF signum = SIGUSR1 THEN 1 ELSE @,
                             !.signals = @ \ {signum}]]
            /\ UNCHANGED <<conn, cmd>>
    /\ pev' = [op |-> "signal", p |-> p, signum |-> signum,
               changes |-> <<cmd[p].state>>,
               destroyed |-> (signum = SIGTERM /\ cmd[p].exists), resp |-> cmd[p].resp]
    /\ UNCHANGED <<worker_proxy, chan_to_worker, chan_to_proxy, now, kvars>>


\* cmd_reg->exec of the command: _cmd_exec_scan and _cmd_exec_version succeed or
\* fail; _cmd_exec_resources first asks the main process for its resource
\* tree and then, with the tree received, finishes
CmdExec(c, exec_ok, send_ok) ==
    IF c.type = SID_CMD_RESOURCES
    THEN IF ~c.main_res_mem
         THEN IF send_ok
              THEN [r |-> 0, states |-> <<CMD_EXPECTING_DATA>>, send |-> TRUE]
              ELSE [r |-> -1, states |-> <<>>, send |-> FALSE]
         ELSE [r |-> IF exec_ok THEN 0 ELSE -1, states |-> <<CMD_EXEC_FINISHED>>, send |-> FALSE]
    ELSE [r |-> IF exec_ok THEN 0 ELSE -1, states |-> <<>>, send |-> FALSE]

\* the body of _cmd_handler: the states the command goes through, what is
\* sent, and whether the connection is cleaned up after a failed write
CmdHandlerBody(c, exec_ok, build_ok, exp_buf, send_ok, write_ok) ==
    LET flags == cmd_reg_flags(c.type)
        scheduled == c.state = CMD_EXEC_SCHEDULED
        e == IF scheduled THEN CmdExec(c, exec_ok, send_ok)
             ELSE [r |-> -1, states |-> <<>>, send |-> FALSE]
        ch1 == IF scheduled
               THEN <<c.state, CMD_EXECUTING>> \o e.states \o
                    (IF e.r >= 0 /\ e.states = <<>> THEN <<CMD_EXEC_FINISHED>> ELSE <<>>)
               ELSE <<c.state>>
        s1 == ch1[Len(ch1)]
        failed == scheduled /\ e.r < 0
        finished == ~failed /\ s1 = CMD_EXEC_FINISHED
        acked == ~failed /\ s1 = CMD_EXPBUF_ACKED
        exporting == flags \cap {CMD_KV_EXPORT_UDEV_TO_RESBUF, CMD_KV_EXPORT_UDEV_TO_EXPBUF,
                                 CMD_KV_EXPORT_SID_TO_RESBUF, CMD_KV_EXPORT_SID_TO_EXPBUF} # {}
        build_r == IF exporting /\ ~build_ok THEN -1 ELSE 0
        expect_ack == CMD_KV_EXPECT_EXPBUF_ACK \in flags
        write == (finished /\ build_r = 0 /\ ~expect_ack) \/ acked
        resbuf_r == IF write_ok THEN 0 ELSE -1
        \* _send_out_cmd_expbuf: a SYNC message only for a buffer with records
        sync == finished /\ build_r = 0 /\ expect_ack /\ CMD_KV_EXPBUF_TO_MAIN \in flags
                /\ exp_buf.records # <<>>
        expbuf_r == IF sync /\ ~send_ok THEN -1 ELSE 0
        s2 == IF finished /\ build_r = 0 /\ expect_ack THEN CMD_EXPECTING_EXPBUF_ACK ELSE s1
        r == IF failed THEN -1
             ELSE IF finished
                  THEN IF build_r < 0 THEN -1
                       ELSE IF expect_ack THEN expbuf_r
                       \* r = _send_out_cmd_resbuf(cmd_res) == 0, then _send_out_cmd_expbuf
                       ELSE IF resbuf_r = 0 THEN 0 ELSE 0
             ELSE IF acked THEN resbuf_r
             ELSE e.r
        cleanup == write /\ ~write_ok
        final == CmdHandlerOut(r, s2)
    IN  [changes |-> ch1 \o (IF s2 # s1 THEN <<s2>> ELSE <<>>)
                         \o (IF ~cleanup /\ final # s2 THEN <<final>> ELSE <<>>),
         state |-> final, r |-> r, request |-> e.send, sync |-> sync /\ send_ok,
         written |-> write /\ write_ok, cleanup |-> cleanup,
         io_error |-> IF cleanup THEN "res_buf"
                      ELSE IF sync /\ ~send_ok THEN "exp_buf" ELSE "none",
         main_res_mem |-> IF scheduled /\ c.type = SID_CMD_RESOURCES THEN FALSE
                          ELSE c.main_res_mem]

\* _cmd_handler: the deferred event source of the command fires.  exec_ok,
\* build_ok, send_ok, write_ok: the command's exec function,
\* _build_cmd_kv_buffers, the send over the channel and the write of the
\* response succeed; exp_buf: the export buffer built; ub: the outcome of using
\* the command context after _connection_cleanup has freed it.
_cmd_handler(p, exec_ok, build_ok, exp_buf, send_ok, write_ok, ub) ==
    /\ worker[p].proc = "running"
    /\ cmd[p].exists
    /\ cmd[p].cmd_handler_es
    /\ LET c == cmd[p]
           h == CmdHandlerBody(c, exec_ok, build_ok, exp_buf, send_ok, write_ok)
           chan1 == IF h.request
                    THEN Append(chan_to_proxy[p],
                                Msg(WORKER_CHANNEL_CMD_DATA, MSG_CATEGORY_SYSTEM,
                                    SYSTEM_CMD_RESOURCES, NO_BUFFER))
                    ELSE IF h.sync
                    THEN Append(chan_to_proxy[p],
                                Msg(WORKER_CHANNEL_CMD_DATA_EXT, MSG_CATEGORY_SYSTEM,
                                    SYSTEM_CMD_SYNC, exp_buf))
                    ELSE chan_to_proxy[p]
           y == worker_control_worker_yield(worker[p], chan1)
       IN  IF h.cleanup
           THEN /\ cmd' = [cmd EXCEPT ![p] = NoCmd]
                /\ conn' = [conn EXCEPT ![p] = "closed"]
                /\ chan_to_proxy' = [chan_to_proxy EXCEPT ![p] = y.chan]
                /\ worker' = [worker EXCEPT ![p] =
                       IF ub = "crash" THEN [y.worker EXCEPT !.proc = "exited", !.signals = {}]
                       ELSE y.worker]
                /\ pev' = [op |-> "cmd_handler", p |-> p, type |-> c.type, changes |-> h.changes,
                           written |-> FALSE, destroyed |-> TRUE, resp |-> c.resp, r |-> h.r,
                           io_error |-> h.io_error, yielded |-> TRUE]
           ELSE /\ cmd' = [cmd EXCEPT ![p] =
                       [c EXCEPT !.state = h.state, !.resp = @ \/ h.written,
                                 !.cmd_handler_es = FALSE, !.main_res_mem = h.main_res_mem]]
                /\ chan_to_proxy' = [chan_to_proxy EXCEPT ![p] = chan1]
                /\ pev' = [op |-> "cmd_handler", p |-> p, type |-> c.type, changes |-> h.changes,
                           written |-> h.written, destroyed |-> FALSE, resp |-> c.resp \/ h.written,
                           r |-> h.r, io_error |-> h.io_error, yielded |-> FALSE]
                /\ UNCHANGED <<conn, worker>>
    /\ UNCHANGED <<worker_proxy, chan_to_worker, now, kvars>>

\* _on_worker_proxy_channel_event: the proxy takes a message of the worker off
\* the channel.  YIELD makes the worker exit; a SYNC message has its export
\* merged by _worker_proxy_recv_system_cmd_sync, which acks whatever the merge
\* returned; a RESOURCES message is answered with the resource tree.
\* read_ok: the read of the size of the export's memory succeeds.
_on_worker_proxy_channel_event(p, read_ok) ==
    /\ worker_proxy[p].res = "live"
    /\ chan_to_proxy[p] # <<>>
    /\ LET m == Head(chan_to_proxy[p])
           wp == worker_proxy[p]
           Sync(s) ==
               /\ main_kv' = s.st
               /\ worker_proxy' = [worker_proxy EXCEPT ![p] =
                      [ProxySend(wp) EXCEPT !.merged = IF s.r = 0 THEN "ok" ELSE "failed"]]
               /\ chan_to_worker' = [chan_to_worker EXCEPT ![p] =
                      Append(@, Msg(WORKER_CHANNEL_CMD_DATA, MSG_CATEGORY_SYSTEM,
                                    SYSTEM_CMD_SYNC, NO_BUFFER))]
               /\ UNCHANGED worker
       IN  /\ chan_to_proxy' = [chan_to_proxy EXCEPT ![p] = Tail(@)]
           /\ IF m.cmd = WORKER_CHANNEL_CMD_YIELD
              THEN /\ worker_proxy' = [worker_proxy EXCEPT ![p] = _make_worker_exit(wp)]
                   /\ worker' = [worker EXCEPT ![p] = Kill(@, SIGTERM)]
                   /\ UNCHANGED <<chan_to_worker, main_kv>>
              ELSE IF m.sys = SYSTEM_CMD_SYNC
              THEN Sync(IF read_ok THEN _sync_main_kv_store(main_kv, m.exp_buf)
                        ELSE [r |-> -1, st |-> main_kv, log |-> <<>>])
              ELSE /\ worker_proxy' = [worker_proxy EXCEPT ![p] = ProxySend(wp)]
                   /\ chan_to_worker' = [chan_to_worker EXCEPT ![p] =
                          Append(@, Msg(WORKER_CHANNEL_CMD_DATA_EXT, MSG_CATEGORY_SYSTEM,
                                        SYSTEM_CMD_RESOURCES, NO_BUFFER))]
                   /\ UNCHANGED <<worker, main_kv>>
           /\ pev' = [op |-> "proxy_channel", p |-> p, msg |-> m.cmd, sys |-> m.sys,
                      sent |-> (m.cmd # WORKER_CHANNEL_CMD_YIELD),
                      exited |-> (worker[p].proc = "exited")]
    /\ UNCHANGED <<conn, cmd, now, snap, exports, kvev>>

\* the child event source with the priority of the channel event sources: the
\* exit of the worker may be handled while data of the worker is pending
_on_worker_proxy_child_event_same_priority(p) ==
    /\ worker_proxy[p].res = "live"
    /\ worker[p].proc = "exited"
    /\ ~(worker_proxy[p].exec_timeout_es.armed /\ now >= worker_proxy[p].exec_timeout_es.deadline)
    /\ worker_proxy' = [worker_proxy EXCEPT ![p] =
           [_change_worker_proxy_state(@, WORKER_STATE_EXITED) EXCEPT
               !.res = "gone", !.exec_timeout_es = NO_TIMER]]
    /\ worker' = [worker EXCEPT ![p] = [@ EXCEPT !.proc = "reaped"]]
    /\ pev' = [op |-> "child", p |-> p, from |-> worker_proxy[p].state]
    /\ UNCHANGED <<chan_to_worker, chan_to_proxy, conn, cmd, now, kvars>>

\* _on_worker_proxy_child_event: the worker process has terminated.  The
\* handler has the lower priority: it runs when no channel event and no timer
\* event of the proxy is pending.  The state becomes EXITED and the proxy
\* resource is dropped.
_on_worker_proxy_child_event(p) ==
    /\ worker_proxy[p].res = "live"
    /\ worker[p].proc = "exited"
    /\ chan_to_proxy[p] = <<>>
    /\ ~(worker_proxy[p].exec_timeout_es.armed /\ now >= worker_proxy[p].exec_timeout_es.deadline)
    /\ worker_proxy' = [worker_proxy EXCEPT ![p] =
           [_change_worker_proxy_state(@, WORKER_STATE_EXITED) EXCEPT
               !.res = "gone", !.exec_timeout_es = NO_TIMER]]
    /\ worker' = [worker EXCEPT ![p] = [@ EXCEPT !.proc = "reaped"]]
    /\ pev' = [op |-> "child", p |-> p, from |-> worker_proxy[p].state]
    /\ UNCHANGED <<chan_to_worker, chan_to_proxy, conn, cmd, now, kvars>>


\* The main process ends while a worker runs.  Its proxies end with it, and
\* the kernel sends every running worker the signal the worker asked for with
\* prctl(PR_SET_PDEATHSIG, SIGUSR1) after the fork.
ParentExit ==
    /\ \E p \in Workers : worker[p].proc = "running"
    /\ \A p \in Workers : worker_proxy[p].res # "dead"
    /\ worker_proxy' = [p \in Workers |->
           IF worker_proxy[p].res = "gone" THEN worker_proxy[p]
           ELSE [worker_proxy[p] EXCEPT !.res = "dead", !.exec_timeout_es = NO_TIMER]]
    /\ worker' = [p \in Workers |->
           IF worker[p].proc = "running" THEN Kill(worker[p], SIGUSR1) ELSE worker[p]]
    /\ pev' = [op |-> "parent_exit"]
    /\ UNCHANGED <<chan_to_worker, chan_to_proxy, conn, cmd, now, kvars>>

InitProc == InitProcVars /\ InitKvVars

NextProc ==
    \/ Tick
    \/ \E p \in Workers, ts \in TimeoutSpecs, ok \in BOOLEAN, d \in 0..1 :
           _on_ubridge_interface_event(p, ts, ok, d)
    \/ \E p \in Workers : _on_worker_proxy_timeout_event(p)
    \/ \E p \in Workers, read_ok \in BOOLEAN, ub \in WildWriteOutcomes :
           _worker_recv_fn(p, read_ok, ub)
    \/ \E p \in Workers, revents \in {"EPOLLIN", "EOF", "EPOLLERR"}, type \in ClientCmds,
          prot \in ProtVersions, root \in BOOLEAN :
           _on_connection_event(p, revents, type, prot, root)
    \/ \E p \in Workers, exec_ok \in BOOLEAN, build_ok \in BOOLEAN, exp_buf \in ExportBuffers,
          send_ok \in BOOLEAN, write_ok \in BOOLEAN, ub \in WildWriteOutcomes :
           _cmd_handler(p, exec_ok, build_ok, exp_buf, send_ok, write_ok, ub)
    \/ \E p \in Workers, signum \in {SIGTERM, SIGUSR1} : _on_worker_signal_event(p, signum)
    \/ \E p \in Workers, read_ok \in BOOLEAN : _on_worker_proxy_channel_event(p, read_ok)
    \/ \E p \in Workers : _on_worker_proxy_child_event(p)
    \/ ParentExit

SpecProc == InitProc /\ [][NextProc]_vars

\* SpecProcFair: the event loops of the main process and of a worker dispatch
\* every event source that stays pending: a message on a channel is taken off
\* and the deferred event source of a command fires
WorkerLoop(p) ==
    \/ \E read_ok \in BOOLEAN, ub \in WildWriteOutcomes : _worker_recv_fn(p, read_ok, ub)
    \/ \E exec_ok \in BOOLEAN, build_ok \in BOOLEAN, exp_buf \in ExportBuffers,
          send_ok \in BOOLEAN, write_ok \in BOOLEAN, ub \in WildWriteOutcomes :
           _cmd_handler(p, exec_ok, build_ok, exp_buf, send_ok, write_ok, ub)

ProxyLoop(p) == \E read_ok \in BOOLEAN : _on_worker_proxy_channel_event(p, read_ok)

SpecProcFair ==
    /\ InitProc
    /\ [][NextProc]_vars
    /\ \A p \in Workers : WF_vars(WorkerLoop(p)) /\ WF_vars(ProxyLoop(p))

(***************************************************************************)
(* SpecStore: the mutations of one worker's snapshot                       *)
(***************************************************************************)

\* the main store after a worker has added device 8_0 to group g and its
\* export has been merged
InheritedStore ==
    LET w == _handle_current_dev_for_group(EmptyStore, <<"a">>, <<"8", "_", "0">>, 1,
                                           KV_NS_GLOBAL, <<"g">>, KV_OP_PLUS, "crash")
    IN  _sync_main_kv_store(EmptyStore, _build_cmd_kv_buffers(w.st, SCAN_FLAGS).exp_buf).st

InitStore ==
    /\ InitProcVars
    /\ main_kv \in {EmptyStore, InheritedStore}
    /\ \E dev_id \in Devs :
           snap = [state |-> "running", st |-> main_kv, seqnum |-> MaxSeq, dev_id |-> dev_id,
                   nops |-> 0, forks |-> 1]
    /\ exports = {}
    /\ kvev = [op |-> "init"]

NextStore ==
    \/ \E mod \in Mods, key \in KeyCores, value \in Values, flags \in SetFlags :
           sid_ucmd_set_kv(mod, KV_NS_DEVICE, key, value, flags)
    \/ \E mod \in Mods, key \in KeyCores : sid_ucmd_get_kv(mod, KV_NS_DEVICE, key)
    \/ \E mod \in Mods, key \in KeyCores, unset \in BOOLEAN :
           sid_ucmd_mod_reserve_kv(mod, KV_NS_DEVICE, key, unset)
    \/ \E mod \in Mods, group_id \in GroupIds, op \in {KV_OP_PLUS, KV_OP_MINUS},
          ub \in NullBufferOutcomes :
           sid_ucmd_group_handle_current_dev(mod, KV_NS_GLOBAL, group_id, op, ub)
    \/ BuildCmdKvBuffers

SpecStore == InitStore /\ [][NextStore]_vars

(***************************************************************************)
(* SpecGroup: the groups of one worker's snapshot                          *)
(***************************************************************************)
NextGroup ==
    \/ \E mod \in Mods, group_id \in GroupIds :
           sid_ucmd_group_create(mod, KV_NS_GLOBAL, group_id)
    \/ \E mod \in Mods, group_id \in GroupIds, op \in {KV_OP_PLUS, KV_OP_MINUS},
          ub \in NullBufferOutcomes :
           sid_ucmd_group_handle_current_dev(mod, KV_NS_GLOBAL, group_id, op, ub)
    \/ \E mod \in Mods, group_id \in GroupIds, force \in BOOLEAN, ub \in NullBufferOutcomes :
           sid_ucmd_group_destroy(mod, KV_NS_GLOBAL, group_id, force, ub)

SpecGroup == InitStore /\ [][NextGroup]_vars

(***************************************************************************)
(* SpecFrame: the current device and two groups in one worker's snapshot   *)
(***************************************************************************)
FrameGroupIds == {<<"g">>, <<"h">>}

NextFrame ==
    \E mod \in Mods, group_id \in FrameGroupIds, op \in {KV_OP_PLUS, KV_OP_MINUS},
       ub \in NullBufferOutcomes :
        sid_ucmd_group_handle_current_dev(mod, KV_NS_GLOBAL, group_id, op, ub)

SpecFrame == InitStore /\ [][NextFrame]_vars

(***************************************************************************)
(* SpecImport: the udev environment of a request and the udev records of   *)
(* the modules in one worker's snapshot                                    *)
(***************************************************************************)
NextImport ==
    \/ \E env \in Envs : ImportUdevEnv(env)
    \/ \E mod \in Mods, key \in KeyCores, value \in Values, flags \in {{}, {KV_MOD_PROTECTED}} :
           sid_ucmd_set_kv(mod, KV_NS_UDEV, key, value, flags)
    \/ BuildCmdKvBuffers

SpecImport == InitStore /\ [][NextImport]_vars

(***************************************************************************)
(* SpecMerge: snapshots, exports and their merge into the main store       *)
(***************************************************************************)
InitMerge == InitProcVars /\ InitKvVars

NextMerge ==
    \/ \E seqnum \in Seqnums, dev_id \in Devs :
           /\ snap.forks < MaxMergeForks
           /\ Fork(seqnum, dev_id)
    \/ \E mod \in Mods, value \in Values, flags \in {{KV_SYNC}, {KV_SYNC, KV_MOD_PROTECTED}} :
           /\ snap.nops < MaxMergeOps
           /\ sid_ucmd_set_kv(mod, KV_NS_GLOBAL, <<"k">>, value, flags)
    \/ \E op \in {KV_OP_PLUS, KV_OP_MINUS}, ub \in NullBufferOutcomes :
           /\ snap.nops < MaxMergeOps
           /\ sid_ucmd_group_handle_current_dev(<<"a">>, KV_NS_GLOBAL, <<"g">>, op, ub)
    \/ BuildCmdKvBuffers
    \/ \E exp_buf \in exports : SyncMainKvStore(exp_buf)

SpecMerge == InitMerge /\ [][NextMerge]_vars

(***************************************************************************)
(* SpecRelation: workers that add the device of their command to a group   *)
(* or remove it, their exports and the merges                              *)
(***************************************************************************)
NextRelation ==
    \/ \E seqnum \in Seqnums, dev_id \in Devs : Fork(seqnum, dev_id)
    \/ \E op \in {KV_OP_PLUS, KV_OP_MINUS}, ub \in NullBufferOutcomes :
           /\ snap.nops < MaxRelationOps
           /\ sid_ucmd_group_handle_current_dev(<<"a">>, KV_NS_GLOBAL, <<"g">>, op, ub)
    \/ BuildCmdKvBuffers
    \/ \E exp_buf \in exports : SyncMainKvStore(exp_buf)

SpecRelation == InitMerge /\ [][NextRelation]_vars

(***************************************************************************)
(* The SCAN command: its phases, the module callbacks of a phase and the   *)
(* capabilities of a phase                                                 *)
(***************************************************************************)

NBlockMods == 2

\* cmd_scan_phase_t
CMD_SCAN_PHASE_A_INIT == 0
CMD_SCAN_PHASE_A_IDENT == 1
CMD_SCAN_PHASE_A_SCAN_PRE == 2
CMD_SCAN_PHASE_A_SCAN_CURRENT == 3
CMD_SCAN_PHASE_A_SCAN_NEXT == 4
CMD_SCAN_PHASE_A_SCAN_POST_CURRENT == 5
CMD_SCAN_PHASE_A_SCAN_POST_NEXT == 6
CMD_SCAN_PHASE_A_WAITING == 7
CMD_SCAN_PHASE_A_EXIT == 8
CMD_SCAN_PHASE_ERROR == 11

\* capability flags of the phases; a mask is the set of its flags, and
\* CMD_SCAN_CAP_ALL (every bit set) holds every flag there is
CMD_SCAN_CAP_RDY == 1
CMD_SCAN_CAP_RES == 2
CMD_SCAN_CAP_ALL == {CMD_SCAN_CAP_RDY, CMD_SCAN_CAP_RES}

KV_KEY_DEV_RESERVED == <<"#", "R", "E", "S">>

\* _cmd_scan_phase_regs[phase].flags
_cmd_scan_phase_regs ==
    [phase \in CMD_SCAN_PHASE_A_INIT..CMD_SCAN_PHASE_ERROR |->
        IF phase \in {CMD_SCAN_PHASE_A_INIT, CMD_SCAN_PHASE_A_EXIT} THEN CMD_SCAN_CAP_ALL
        ELSE IF phase \in {CMD_SCAN_PHASE_A_SCAN_PRE, CMD_SCAN_PHASE_A_SCAN_CURRENT}
        THEN {CMD_SCAN_CAP_RDY}
        ELSE IF phase = CMD_SCAN_PHASE_A_SCAN_NEXT THEN {CMD_SCAN_CAP_RES}
        ELSE {}]

\* a set_ready that does not look at the capabilities of the phase
sid_ucmd_dev_set_ready_any_phase(ctx, phase, ready) ==
    IF ready \in {"DEV_NOT_RDY_UNDEFINED", "DEV_NOT_RDY_UNPROCESSED"}
    THEN [r |-> -EINVAL, st |-> ctx.st, set |-> FALSE]
    ELSE [r |-> 0,
          st |-> _do_sid_ucmd_set_kv(ctx.st, OWNER_CORE, ctx.dev_id, ctx.seqnum, ID_NULL,
                                     KV_NS_DEVICE, KV_KEY_DEV_READY,
                                     DEFAULT_VALUE_FLAGS_CORE, <<ready>>).st,
          set |-> TRUE]

\* sid_ucmd_dev_set_ready called by a module (mod and ucmd_ctx are not NULL);
\* ctx is the command's snapshot, phase is ucmd_ctx->scan.phase.  set: the
\* store was asked to set the value; the result of that is not looked at.
sid_ucmd_dev_set_ready(ctx, phase, ready) ==
    IF ready = "DEV_NOT_RDY_UNDEFINED"
    THEN [r |-> -EINVAL, st |-> ctx.st, set |-> FALSE]
    ELSE IF CMD_SCAN_CAP_RDY \notin _cmd_scan_phase_regs[phase]
    THEN [r |-> -EPERM, st |-> ctx.st, set |-> FALSE]
    ELSE IF ready = "DEV_NOT_RDY_UNPROCESSED"
    THEN [r |-> -EINVAL, st |-> ctx.st, set |-> FALSE]
    ELSE [r |-> 0,
          st |-> _do_sid_ucmd_set_kv(ctx.st, OWNER_CORE, ctx.dev_id, ctx.seqnum, ID_NULL,
                                     KV_NS_DEVICE, KV_KEY_DEV_READY,
                                     DEFAULT_VALUE_FLAGS_CORE, <<ready>>).st,
          set |-> TRUE]

\* sid_ucmd_dev_set_reserved called by a module
sid_ucmd_dev_set_reserved(ctx, phase, reserved) ==
    IF reserved = "DEV_RES_UNDEFINED"
    THEN [r |-> -EINVAL, st |-> ctx.st, set |-> FALSE]
    ELSE IF CMD_SCAN_CAP_RES \notin _cmd_scan_phase_regs[phase]
    THEN [r |-> -EPERM, st |-> ctx.st, set |-> FALSE]
    ELSE [r |-> 0,
          st |-> _do_sid_ucmd_set_kv(ctx.st, OWNER_CORE, ctx.dev_id, ctx.seqnum, ID_NULL,
                                     KV_NS_DEVICE, KV_KEY_DEV_RESERVED,
                                     DEFAULT_VALUE_FLAGS_CORE, <<reserved>>).st,
          set |-> TRUE]

\* _set_device_kv_records: a device without a ready record gets the ready and
\* the reserved record of an unprocessed device
_set_device_kv_records(ctx) ==
    IF kv_store_get_value(ctx.st,
           _compose_key(KeySpec(KV_OP_SET, ID_NULL, KV_NS_DEVICE, ctx.dev_id, ID_NULL, ID_NULL,
                                KV_KEY_DEV_READY))) # NULL
    THEN ctx.st
    ELSE _do_sid_ucmd_set_kv(
             _do_sid_ucmd_set_kv(ctx.st, OWNER_CORE, ctx.dev_id, ctx.seqnum, ID_NULL,
                                 KV_NS_DEVICE, KV_KEY_DEV_READY, DEFAULT_VALUE_FLAGS_CORE,
                                 <<"DEV_NOT_RDY_UNPROCESSED">>).st,
             OWNER_CORE, ctx.dev_id, ctx.seqnum, ID_NULL, KV_NS_DEVICE, KV_KEY_DEV_RESERVED,
             DEFAULT_VALUE_FLAGS_CORE, <<"DEV_RES_UNPROCESSED">>).st

\* an iteration that goes on after a block module has failed
_execute_block_modules_to_the_end(rets, i) ==
    [r |-> IF \E j \in i..Len(rets) : rets[j] < 0 THEN -1 ELSE 0, called |-> Len(rets)]

\* _execute_block_modules: rets[i] is what the callback of the i-th block
\* module of the registry returns when it is called, i the position of the
\* iterator.  called: the number of block modules called.
RECURSIVE _execute_block_modules(_, _)
_execute_block_modules(rets, i) ==
    IF i > Len(rets) THEN [r |-> 0, called |-> i - 1]
    ELSE IF rets[i] < 0 THEN [r |-> -1, called |-> i]
    ELSE _execute_block_modules(rets, i + 1)

\* _cmd_scan_phase_regs[phase].exec(exec_arg): _cmd_exec_scan_init, _ident,
\* _pre, _current, _next, _post_current, _post_next, _wait, _exit and _error.
\* in: whether the initialization of the core succeeds, what the callbacks
\* of the block modules and of the type modules return, whether the lookup
\* of the type module finds a loaded module.  types: the type modules called;
\* calls: the callbacks in the order they are called in.
ScanPhaseExec(phase, exec_arg, in) ==
    LET b == _execute_block_modules(in.block_rets, 1)
        Out(r, arg, types) ==
            [r |-> r, exec_arg |-> arg, blocks |-> b.called, block_r |-> b.r, types |-> types,
             calls |-> [i \in 1..b.called |-> [registry |-> "block", mod |-> i]]
                           \o [i \in 1..Len(types) |-> [registry |-> "type", mod |-> types[i]]]]
        Core(r) ==
            [r |-> r, exec_arg |-> exec_arg, blocks |-> 0, block_r |-> 0, types |-> <<>>,
             calls |-> <<>>]
        with_current == [exec_arg EXCEPT !.type_mod_res_current = in.lookup]
        with_next == [exec_arg EXCEPT !.type_mod_res_next = in.lookup]
    IN  CASE phase = CMD_SCAN_PHASE_A_INIT -> Core(IF in.init_ok THEN 0 ELSE -1)
          [] phase = CMD_SCAN_PHASE_A_IDENT ->
                 IF ~in.lookup THEN Out(0, with_current, <<>>)
                 ELSE Out(in.ret, with_current, <<"current">>)
          [] phase \in {CMD_SCAN_PHASE_A_SCAN_PRE, CMD_SCAN_PHASE_A_SCAN_POST_CURRENT} ->
                 IF ~exec_arg.type_mod_res_current THEN Out(0, exec_arg, <<>>)
                 ELSE Out(in.ret, exec_arg, <<"current">>)
          [] phase = CMD_SCAN_PHASE_A_SCAN_CURRENT ->
                 IF ~exec_arg.type_mod_res_current THEN Out(0, exec_arg, <<>>)
                 ELSE Out(IF in.ret # 0 THEN -1 ELSE 0, exec_arg, <<"current">>)
          [] phase = CMD_SCAN_PHASE_A_SCAN_NEXT ->
                 IF ~in.lookup THEN Out(0, with_next, <<>>)
                 ELSE Out(in.ret, with_next, <<"next">>)
          [] phase = CMD_SCAN_PHASE_A_SCAN_POST_NEXT ->
                 IF ~exec_arg.type_mod_res_next THEN Out(0, exec_arg, <<>>)
                 ELSE Out(in.ret, exec_arg, <<"next">>)
          [] phase \in {CMD_SCAN_PHASE_A_WAITING, CMD_SCAN_PHASE_A_EXIT} -> Core(0)
          [] phase = CMD_SCAN_PHASE_ERROR ->
                 \* r |= the return of the error callback of either type module
                 LET r1 == IF exec_arg.type_mod_res_current THEN in.ret ELSE 0
                     r2 == IF exec_arg.type_mod_res_next THEN in.ret_next ELSE 0
                 IN  Out(IF r1 < 0 \/ r2 < 0 THEN -1 ELSE IF r1 > 0 \/ r2 > 0 THEN 1 ELSE 0,
                         exec_arg,
                         (IF exec_arg.type_mod_res_current THEN <<"current">> ELSE <<>>)
                             \o (IF exec_arg.type_mod_res_next THEN <<"next">> ELSE <<>>))

\* what a module callback may call: nothing, sid_ucmd_dev_set_ready or
\* sid_ucmd_dev_set_reserved
ModuleCalls ==
    {[fn |-> "none", value |-> "none"]}
        \cup [fn : {"set_ready"},
              value : {"DEV_NOT_RDY_UNDEFINED", "DEV_NOT_RDY_UNPROCESSED", "DEV_RDY_PUBLIC"}]
        \cup [fn : {"set_reserved"}, value : {"DEV_RES_UNDEFINED", "DEV_RES_RESERVED"}]

\* the inputs of one exec call of the scan.  A phase in which a callback
\* makes a call is one in which every block module returns 0.
ScanInputs(exec, exec_arg) ==
    LET mods == exec \in (CMD_SCAN_PHASE_A_IDENT..CMD_SCAN_PHASE_A_SCAN_POST_NEXT)
                             \cup {CMD_SCAN_PHASE_ERROR}
        In(block_rets, call) ==
            [init_ok : IF exec = CMD_SCAN_PHASE_A_INIT THEN BOOLEAN ELSE {TRUE},
             block_rets : block_rets,
             lookup : IF exec \in {CMD_SCAN_PHASE_A_IDENT, CMD_SCAN_PHASE_A_SCAN_NEXT}
                      THEN BOOLEAN ELSE {FALSE},
             ret : IF exec \in {CMD_SCAN_PHASE_A_SCAN_CURRENT, CMD_SCAN_PHASE_ERROR}
                   THEN {-1, 0, 1}
                   ELSE IF mods THEN {-1, 0} ELSE {0},
             ret_next : IF exec = CMD_SCAN_PHASE_ERROR /\ exec_arg.type_mod_res_next
                        THEN {-1, 0} ELSE {0},
             call : call,
             send_ok : IF exec = CMD_SCAN_PHASE_A_EXIT THEN BOOLEAN ELSE {TRUE}]
    IN  IF mods
        THEN In([1..NBlockMods -> {-1, 0}], {[fn |-> "none", value |-> "none"]})
                 \cup In({[i \in 1..NBlockMods |-> 0]}, ModuleCalls)
        ELSE In({[i \in 1..NBlockMods |-> 0]}, {[fn |-> "none", value |-> "none"]})

\* the command context of a SCAN command whose handler is about to run
ScanCmd ==
    [exists |-> TRUE, type |-> SID_CMD_SCAN, state |-> CMD_EXEC_SCHEDULED, resp |-> FALSE,
     cmd_handler_es |-> TRUE, main_res_mem |-> FALSE,
     scan |-> [phase |-> CMD_SCAN_PHASE_A_INIT, next |-> CMD_SCAN_PHASE_A_INIT,
               error |-> FALSE,
               exec_arg |-> [type_mod_res_current |-> FALSE, type_mod_res_next |-> FALSE],
               ran |-> <<>>, failed |-> {}]]

\* a loop that runs a failed phase again after the ERROR phase
_cmd_exec_scan_phase_again(next, exec, r) ==
    IF exec = CMD_SCAN_PHASE_ERROR
    THEN [next |-> next, error |-> FALSE, returned |-> FALSE, r |-> 0]
    ELSE IF r < 0
    THEN IF exec \in {CMD_SCAN_PHASE_A_INIT, CMD_SCAN_PHASE_A_EXIT}
         THEN [next |-> next, error |-> FALSE, returned |-> TRUE, r |-> -1]
         ELSE [next |-> next, error |-> TRUE, returned |-> FALSE, r |-> 0]
    ELSE [next |-> next + 1, error |-> FALSE, returned |-> exec = CMD_SCAN_PHASE_A_EXIT,
          r |-> 0]

\* a loop for which the failure of INIT is a failure like any other
_cmd_exec_scan_init_not_fatal(next, exec, r) ==
    IF exec = CMD_SCAN_PHASE_ERROR
    THEN [next |-> next + 1, error |-> FALSE, returned |-> FALSE, r |-> 0]
    ELSE IF r < 0
    THEN IF exec = CMD_SCAN_PHASE_A_EXIT
         THEN [next |-> next, error |-> FALSE, returned |-> TRUE, r |-> -1]
         ELSE [next |-> next, error |-> TRUE, returned |-> FALSE, r |-> 0]
    ELSE [next |-> next + 1, error |-> FALSE, returned |-> exec = CMD_SCAN_PHASE_A_EXIT,
          r |-> 0]

\* a loop that gives up when the ERROR phase fails
_cmd_exec_scan_error_cancels(next, exec, r) ==
    IF exec = CMD_SCAN_PHASE_ERROR
    THEN [next |-> next + 1, error |-> FALSE, returned |-> r < 0,
          r |-> IF r < 0 THEN -1 ELSE 0]
    ELSE IF r < 0
    THEN IF exec \in {CMD_SCAN_PHASE_A_INIT, CMD_SCAN_PHASE_A_EXIT}
         THEN [next |-> next, error |-> FALSE, returned |-> TRUE, r |-> -1]
         ELSE [next |-> next, error |-> TRUE, returned |-> FALSE, r |-> 0]
    ELSE [next |-> next + 1, error |-> FALSE, returned |-> exec = CMD_SCAN_PHASE_A_EXIT,
          r |-> 0]

\* _cmd_exec_scan, the loop over the phases: what follows the exec call of
\* phase exec (the phase at position next, or the ERROR phase) that returned
\* r.  next: the phase to run next; error: the ERROR phase runs first;
\* returned: _cmd_exec_scan returns, with r.
_cmd_exec_scan(next, exec, r) ==
    IF exec = CMD_SCAN_PHASE_ERROR
    THEN [next |-> next + 1, error |-> FALSE, returned |-> FALSE, r |-> 0]
    ELSE IF r < 0
    THEN IF exec \in {CMD_SCAN_PHASE_A_INIT, CMD_SCAN_PHASE_A_EXIT}
         THEN [next |-> next, error |-> FALSE, returned |-> TRUE, r |-> -1]
         ELSE [next |-> next, error |-> TRUE, returned |-> FALSE, r |-> 0]
    ELSE [next |-> next + 1, error |-> FALSE, returned |-> exec = CMD_SCAN_PHASE_A_EXIT,
          r |-> 0]

\* _cmd_handler of a SCAN command in CMD_EXEC_SCHEDULED, one exec call of
\* _cmd_exec_scan at a time: the phase or, after a phase other than INIT and
\* EXIT has failed, the ERROR phase, for which scan.phase is not changed.
\* The call a module makes in it sees scan.phase.  With the return of
\* _cmd_exec_scan the handler goes on: it builds the buffers, sends the export
\* and sets the final state.
_cmd_handler_scan(p) ==
    /\ cmd[p].exists
    /\ cmd[p].type = SID_CMD_SCAN
    /\ cmd[p].cmd_handler_es
    /\ cmd[p].state \in {CMD_EXEC_SCHEDULED, CMD_EXECUTING}
    /\ snap.state = "running"
    /\ LET c == cmd[p]
           s == c.scan
           exec == IF s.error THEN CMD_SCAN_PHASE_ERROR ELSE s.next
           phase == IF s.error THEN s.phase ELSE s.next
       IN  \E in \in ScanInputs(exec, s.exec_arg) :
           LET e == ScanPhaseExec(exec, s.exec_arg, in)
               st1 == IF exec = CMD_SCAN_PHASE_A_INIT /\ in.init_ok
                      THEN _set_device_kv_records(snap) ELSE snap.st
               l == _cmd_exec_scan(s.next, exec, e.r)
               fatal == l.returned /\ l.r < 0
               last == l.returned /\ l.r >= 0
               s1 == [phase |-> phase,
                      next |-> l.next,
                      error |-> l.error,
                      exec_arg |-> e.exec_arg,
                      ran |-> IF exec = CMD_SCAN_PHASE_ERROR THEN s.ran
                              ELSE Append(s.ran, exec),
                      failed |-> IF e.r >= 0 THEN s.failed
                                 ELSE s.failed \cup {IF exec = CMD_SCAN_PHASE_ERROR
                                                     THEN "error" ELSE "phase"}]
               Called(cr) ==
                   LET Built(b) ==
                           LET Out(h) ==
                                   /\ cmd' = [cmd EXCEPT ![p] =
                                          [c EXCEPT !.scan = s1,
                                                    !.state = IF fatal \/ last THEN h.state
                                                              ELSE CMD_EXECUTING,
                                                    !.cmd_handler_es = ~(fatal \/ last)]]
                                   /\ snap' = [snap EXCEPT !.st = b.st,
                                                           !.state = IF last THEN "built" ELSE @]
                                   /\ exports' = IF last /\ h.sync
                                                 THEN exports \cup {b.exp_buf} ELSE exports
                                   /\ chan_to_proxy' = [chan_to_proxy EXCEPT ![p] =
                                          IF last /\ h.sync
                                          THEN Append(@, Msg(WORKER_CHANNEL_CMD_DATA_EXT,
                                                             MSG_CATEGORY_SYSTEM,
                                                             SYSTEM_CMD_SYNC, b.exp_buf))
                                          ELSE @]
                                   /\ pev' = [op |-> "scan", p |-> p, exec |-> exec,
                                              phase |-> phase, r |-> e.r, blocks |-> e.blocks,
                                              block_rets |-> in.block_rets,
                                              block_r |-> e.block_r, types |-> e.types,
                                              calls |-> e.calls,
                                              returned |-> fatal \/ last,
                                              scan_r |-> l.r,
                                              state |-> IF fatal \/ last THEN h.state
                                                        ELSE CMD_EXECUTING,
                                              failure |-> (fatal \/ last) /\ h.r < 0,
                                              built |-> last /\ b.r = 0,
                                              sync |-> last /\ h.sync]
                                   /\ kvev' = [op |-> "dev_set", fn |-> in.call.fn,
                                               value |-> in.call.value, phase |-> phase,
                                               r |-> cr.r, set |-> cr.set,
                                               changed |-> cr.st # st1]
                           IN  Out(CmdHandlerBody([c EXCEPT !.state = CMD_EXEC_SCHEDULED], ~fatal,
                                                  b.r = 0, b.exp_buf, in.send_ok, TRUE))
                   IN  Built(IF last THEN _build_cmd_kv_buffers(cr.st, SCAN_FLAGS)
                             ELSE [r |-> 0, st |-> cr.st, exp_buf |-> NO_BUFFER])
           IN  Called(IF in.call.fn = "set_ready"
                      THEN sid_ucmd_dev_set_ready([snap EXCEPT !.st = st1], phase, in.call.value)
                      ELSE IF in.call.fn = "set_reserved"
                      THEN sid_ucmd_dev_set_reserved([snap EXCEPT !.st = st1], phase,
                                                     in.call.value)
                      ELSE [r |-> 0, st |-> st1, set |-> FALSE])
    /\ UNCHANGED <<worker_proxy, worker, chan_to_worker, conn, now, main_kv>>

\* a worker has been given a connection and has received a SCAN command for
\* a device; its store is a snapshot of the empty main store
InitScan ==
    /\ worker_proxy = [p \in Workers |->
           IF p = 1 THEN ProxySend(_init_worker_proxy([usec |-> 0, signum |-> SIG_NONE], 0))
           ELSE NoProxy]
    /\ worker = [p \in Workers |->
           IF p = 1 THEN [NoWorker EXCEPT !.proc = "running"] ELSE NoWorker]
    /\ chan_to_worker = [p \in Workers |-> <<>>]
    /\ chan_to_proxy = [p \in Workers |-> <<>>]
    /\ conn = [p \in Workers |-> IF p = 1 THEN "used" ELSE "none"]
    /\ cmd = [p \in Workers |-> IF p = 1 THEN ScanCmd ELSE NoCmd]
    /\ now = 0
    /\ pev = [op |-> "init"]
    /\ main_kv = EmptyStore
    /\ snap = [state |-> "running", st |-> main_kv, seqnum |-> MaxSeq,
               dev_id |-> <<"8", "_", "0">>, nops |-> 0, forks |-> 1]
    /\ exports = {}
    /\ kvev = [op |-> "init"]

NextScan == \E p \in Workers : _cmd_handler_scan(p)

SpecScan == InitScan /\ [][NextScan]_vars


(***************************************************************************)
(* SpecDelta: delta steps on one vector record of a snapshot               *)
(***************************************************************************)

\* the items of the vectors, and the sorted vectors the callers pass: every
\* caller sorts its vector with _vvalue_str_cmp and has each item once
DeltaItems == {<<"a">>, <<"a", "b">>, <<"b">>, <<"k">>}
DeltaVectors == {KeysInOrder(S) : S \in SUBSET DeltaItems}

\* the key of the vector record
DeltaKey ==
    _compose_key(KeySpec(KV_OP_SET, KV_KEY_DOM_USER, KV_NS_GLOBAL, ID_NULL, <<"g">>, ID_NULL,
                         KV_KEY_GEN_GROUP_MEMBERS))

\* kv_store_set_value with the callback _kv_cb_delta_step, as _kv_delta_set
\* calls it: the delta of the old and the new vector is calculated and the
\* final vector is stored
KvDeltaStep(op, new) ==
    /\ snap.state = "running"
    /\ LET Done(old, d) ==
               /\ snap' = [snap EXCEPT !.st = kv_store_set_value(@, DeltaKey, d)]
               /\ kvev' = [op |-> "delta_step", delta_op |-> op, old |-> old, new |-> new,
                           r |-> d.delta.r, plus |-> d.delta.plus, minus |-> d.delta.minus,
                           final |-> d.delta.final, committed |-> d.commit]
       IN  Done(kv_store_get_value(snap.st, DeltaKey),
                _kv_cb_delta_step(op, kv_store_get_value(snap.st, DeltaKey), new))
    /\ UNCHANGED <<main_kv, exports, pvars>>

\* a worker whose snapshot has no vector record or a sorted one
InitDelta ==
    /\ InitProcVars
    /\ main_kv = EmptyStore
    /\ \E st \in {EmptyStore}
                 \cup {kv_store_set_value(EmptyStore, DeltaKey,
                                          [commit |-> TRUE,
                                           new |-> Value(MaxSeq, value_flags_no_sync, OWNER_CORE,
                                                         TRUE, old)]) :
                       old \in DeltaVectors} :
           snap = [state |-> "running", st |-> st, seqnum |-> MaxSeq,
                   dev_id |-> <<"8", "_", "0">>, nops |-> 0, forks |-> 1]
    /\ exports = {}
    /\ kvev = [op |-> "init"]

NextDelta ==
    \E op \in {KV_OP_ILLEGAL, KV_OP_SET, KV_OP_PLUS, KV_OP_MINUS}, new \in DeltaVectors :
        KvDeltaStep(op, Value(MaxSeq, value_flags_no_sync, OWNER_CORE, TRUE, new))

SpecDelta == InitDelta /\ [][NextDelta]_vars

(***************************************************************************)
(* SpecSync: the records of an export merged into the main store, and the  *)
(* delta steps of a worker on its snapshot of that store                   *)
(***************************************************************************)

\* the key of a record with a single value
SyncScalarKey ==
    MainKey(_compose_key(KeySpec(KV_OP_SET, KV_KEY_DOM_USER, KV_NS_GLOBAL, ID_NULL, ID_NULL,
                                 ID_NULL, <<"k">>)))

\* the records of an export: vector records under the key of the group's
\* vector with no operator, '+', '-' and the illegal 'X', and records with a
\* single value with and without the illegal operator
SyncRecords ==
    {[key |-> prefix \o MainKey(DeltaKey), value |-> Value(MaxSeq, {}, owner, TRUE, items)] :
         prefix \in {<<>>, <<"+">>, <<"-">>, <<"X">>}, owner \in Mods,
         items \in {<<>>, <<<<"a">>>>, <<<<"b">>>>}}
    \cup {[key |-> prefix \o SyncScalarKey, value |-> Value(MaxSeq, {}, <<"a">>, FALSE, <<"v">>)] :
              prefix \in {<<>>, <<"X">>}}
SyncBuffers ==
    {Buffer(<<r>>) : r \in SyncRecords} \cup {Buffer(<<r1, r2>>) : r1, r2 \in SyncRecords}

\* the main store before the merge: empty, or with the vector of module a,
\* protected or not
SyncStores ==
    {EmptyStore}
    \cup {kv_store_set_value(EmptyStore, DeltaKey,
                             [commit |-> TRUE,
                              new |-> Value(1, flags, <<"a">>, TRUE, <<<<"a">>>>)]) :
          flags \in {{}, {KV_MOD_PROTECTED}}}

\* the parent with an export to merge, or a worker on its snapshot
InitSync ==
    /\ InitProcVars
    /\ main_kv \in SyncStores
    /\ \/ /\ snap = NoSnap
          /\ \E exp_buf \in SyncBuffers : exports = {exp_buf}
       \/ /\ snap = [state |-> "running", st |-> main_kv, seqnum |-> MaxSeq,
                     dev_id |-> <<"8", "_", "0">>, nops |-> 0, forks |-> 1]
          /\ exports = {}
    /\ kvev = [op |-> "init"]

NextSync ==
    \/ \E exp_buf \in exports : SyncMainKvStore(exp_buf)
    \/ \E op \in {KV_OP_ILLEGAL, KV_OP_SET, KV_OP_PLUS, KV_OP_MINUS},
          new \in {<<>>, <<<<"a">>>>, <<<<"b">>>>} :
           KvDeltaStep(op, Value(MaxSeq, value_flags_no_sync, OWNER_CORE, TRUE, new))

SpecSync == InitSync /\ [][NextSync]_vars


(***************************************************************************)
(* The properties of the merge at the main process                         *)
(***************************************************************************)

\* C1: when the main process merges an exported record onto a key that
\* already holds a record, the write is applied if and only if the sequence
\* number of the new record is not lower than the stored one's and the
\* ownership checks of an overwrite let it pass.
C1_MergeAppliedIffNotOlder ==
    kvev.op = "sync" =>
        \A i \in 1..Len(kvev.log) :
            kvev.log[i].old # NULL =>
                (kvev.log[i].applied <=>
                     /\ kvev.log[i].new.seqnum >= kvev.log[i].old.seqnum
                     /\ OverwriteDenied(kvev.log[i].old, kvev.log[i].new) = "")

\* C2: whatever exports are merged, a replayed one included, the sequence
\* number stored on a key of the main store never decreases.
C2_SeqnumNeverDecreases ==
    [][\A k \in DOMAIN main_kv.rec :
           k \in DOMAIN main_kv'.rec => main_kv'.rec[k].seqnum >= main_kv.rec[k].seqnum]_vars


(***************************************************************************)
(* The properties of the worker's store                                    *)
(***************************************************************************)

\* the error _kv_cb_overwrite reports for a record of another owner: that of
\* the first of MOD_PRIVATE, MOD_PROTECTED and MOD_RESERVED the record carries
RefusalOf(flags) ==
    IF KV_MOD_PRIVATE \in flags THEN "-EACCES"
    ELSE IF KV_MOD_PROTECTED \in flags THEN "-EPERM"
    ELSE "-EBUSY"

\* C3 as stated: every set on an existing record flagged MOD_PRIVATE,
\* MOD_PROTECTED or MOD_RESERVED commits if and only if the caller is the
\* owner of the record; a refused set leaves the record as it was and reports
\* EACCES, EPERM or EBUSY.
C3_SetCommitsIffOwner ==
    (kvev.op = "set" /\ kvev.key # <<>> /\ kvev.old # NULL
     /\ _flags_indicate_mod_owned(kvev.old.flags)) =>
        /\ kvev.committed <=> kvev.owner = kvev.old.owner
        /\ ~kvev.committed =>
               /\ kv_store_get_value(snap.st, kvev.key) = kvev.old
               /\ kvev.ret_code = RefusalOf(kvev.old.flags)

\* C3 amended: the same for the sets that pass the check of the global
\* reservation and so reach the store with _kv_cb_overwrite; a set refused by
\* that check leaves the record as it was, whoever owns it.
C3_CheckedSetCommitsIffOwner ==
    (kvev.op = "set" /\ kvev.key # <<>> /\ kvev.old # NULL
     /\ _flags_indicate_mod_owned(kvev.old.flags)) =>
        /\ kvev.checked => (kvev.committed <=> kvev.owner = kvev.old.owner)
        /\ ~kvev.committed => kv_store_get_value(snap.st, kvev.key) = kvev.old
        /\ (kvev.checked /\ ~kvev.committed) => kvev.ret_code = RefusalOf(kvev.old.flags)
        /\ ~kvev.checked => ~kvev.committed

\* a module's set is refused with EPERM on a protected record of another module
C3_Witness ==
    /\ kvev.op = "set" /\ kvev.key # <<>> /\ kvev.old # NULL
    /\ kvev.checked /\ ~kvev.committed
    /\ KV_MOD_PROTECTED \in kvev.old.flags
    /\ kvev.ret_code = "-EPERM"


\* C4: after any mutation of the worker's store (a set with or without a
\* value, a reservation or its release, a delta set with or without reciprocal
\* updates) the keys of the '>' sync index are exactly the keys whose record
\* carries SYNC.
C4_SyncIndexMatchesFlags ==
    kvev.op \in {"set", "reserve", "group"} =>
        snap.st.alias = {k \in DOMAIN snap.st.rec : KV_SYNC \in snap.st.rec[k].flags}


\* the items of a stored vector
ItemsOf(value) ==
    IF value = NULL THEN {} ELSE {value.data[i] : i \in 1..Len(value.data)}

\* C5: a mutation with reciprocal updates on the group key K completes, and
\* after it added the device N the value of N holds the prefix of K, after it
\* removed N the value of N does not hold it, and N is among the items of K
\* only if the prefix of K is among the items of N.
C5_RelationsSymmetric ==
    kvev.op = "group" =>
        /\ ~kvev.crashed
        /\ kvev.delta_op = KV_OP_PLUS =>
               kvev.key_prefix \in ItemsOf(kv_store_get_value(snap.st, kvev.rel_key))
        /\ kvev.delta_op = KV_OP_MINUS =>
               kvev.key_prefix \notin ItemsOf(kv_store_get_value(snap.st, kvev.rel_key))
        /\ kvev.rel_key_prefix \in ItemsOf(kv_store_get_value(snap.st, kvev.key)) =>
               kvev.key_prefix \in ItemsOf(kv_store_get_value(snap.st, kvev.rel_key))


(***************************************************************************)
(* The properties of commands, workers and their proxies                   *)
(***************************************************************************)

\* C6: the worker writes the response of a SCAN command only after the main
\* process has merged the worker's export and sent the acknowledgement, and
\* never while the command is in CMD_EXPECTING_EXPBUF_ACK or an earlier state.
C6_ResponseAfterMergeAndAck ==
    (pev.op = "cmd_handler" /\ pev.written /\ pev.type = SID_CMD_SCAN) =>
        /\ Head(pev.changes) = CMD_EXPBUF_ACKED
        /\ worker_proxy[pev.p].merged = "ok"

\* the events that change the state of a command or destroy its context
CmdEvents == {"connection", "worker_recv", "cmd_handler", "signal"}

\* the position of a state in the order INITIALIZING, EXEC_SCHEDULED,
\* EXECUTING, {EXEC_FINISHED, EXPECTING_DATA}, EXPECTING_EXPBUF_ACK,
\* EXPBUF_ACKED, {OK, ERROR}
CmdStateRank(state) ==
    CASE state = CMD_NONE -> 0
      [] state = CMD_INITIALIZING -> 1
      [] state = CMD_EXEC_SCHEDULED -> 2
      [] state = CMD_EXECUTING -> 3
      [] state \in {CMD_EXEC_FINISHED, CMD_EXPECTING_DATA} -> 4
      [] state = CMD_EXPECTING_EXPBUF_ACK -> 5
      [] state = CMD_EXPBUF_ACKED -> 6
      [] state \in {CMD_OK, CMD_ERROR} -> 7

CmdTransitions ==
    {<<CMD_NONE, CMD_INITIALIZING>>,
     <<CMD_INITIALIZING, CMD_EXEC_SCHEDULED>>,
     <<CMD_EXEC_SCHEDULED, CMD_EXECUTING>>,
     <<CMD_EXECUTING, CMD_EXEC_FINISHED>>,
     <<CMD_EXECUTING, CMD_EXPECTING_DATA>>,
     <<CMD_EXECUTING, CMD_ERROR>>,
     <<CMD_EXPECTING_DATA, CMD_EXEC_SCHEDULED>>,
     <<CMD_EXEC_FINISHED, CMD_EXPECTING_EXPBUF_ACK>>,
     <<CMD_EXEC_FINISHED, CMD_OK>>,
     <<CMD_EXEC_FINISHED, CMD_ERROR>>,
     <<CMD_EXPECTING_EXPBUF_ACK, CMD_EXPBUF_ACKED>>,
     <<CMD_EXPECTING_EXPBUF_ACK, CMD_ERROR>>,
     <<CMD_EXPBUF_ACKED, CMD_OK>>}

C8_YieldedWorkerIsIdle ==
    (pev.op = "proxy_channel" /\ pev.msg = WORKER_CHANNEL_CMD_YIELD) =>
        /\ worker_proxy[pev.p].state = WORKER_STATE_IDLE
        /\ pev.p \in worker_control_get_idle_worker

\* C9 as stated: a send to a proxy makes it ASSIGNED, cancels the idle timer
\* and arms the execution timeout, if one is configured, at the time of the
\* send.
C9_TimeoutArmedAtSend ==
    (pev.op = "interface" /\ pev.sent) =>
        /\ worker_proxy[pev.p].state = WORKER_STATE_ASSIGNED
        /\ ~worker_proxy[pev.p].idle_timeout_es
        /\ worker_proxy[pev.p].timeout_spec.usec # 0 =>
               worker_proxy[pev.p].exec_timeout_es =
                   [armed |-> TRUE,
                    deadline |-> pev.at + worker_proxy[pev.p].timeout_spec.usec]

\* C9 amended: a send to a proxy makes it ASSIGNED and cancels the idle timer;
\* the execution timeout is armed when the proxy is created and at no other
\* time, so its deadline is the creation time plus the configured timeout.
C9_TimeoutArmedAtCreation ==
    /\ (pev.op \in {"interface", "proxy_channel"} /\ pev.sent) =>
           /\ worker_proxy[pev.p].state = WORKER_STATE_ASSIGNED
           /\ ~worker_proxy[pev.p].idle_timeout_es
    /\ \A p \in Workers :
           worker_proxy[p].exec_timeout_es.armed =>
               /\ worker_proxy[p].timeout_spec.usec # 0
               /\ worker_proxy[p].exec_timeout_es.deadline =
                      worker_proxy[p].created + worker_proxy[p].timeout_spec.usec
    /\ (pev.op = "interface" /\ worker_proxy[pev.p].timeout_spec.usec # 0) =>
           worker_proxy[pev.p].exec_timeout_es.armed

\* work is sent to a proxy with a timeout some time after the proxy was created
C9_Witness ==
    /\ pev.op = "interface" /\ pev.sent
    /\ worker_proxy[pev.p].timeout_spec.usec # 0
    /\ pev.at > worker_proxy[pev.p].created
    /\ worker_proxy[pev.p].state = WORKER_STATE_ASSIGNED

\* C10: when the execution timeout of a proxy fires, the proxy is TIMED_OUT
\* and the configured signal, if there is one, has been sent to the worker;
\* the proxy is EXITED once the exit of the worker has been handled, and it is
\* removed then and not before.
C10_TimeoutThenExit ==
    /\ pev.op = "timeout" =>
           /\ worker_proxy[pev.p].state = WORKER_STATE_TIMED_OUT
           /\ worker[pev.p].signals =
                  IF pev.signum # SIG_NONE /\ worker[pev.p].proc = "running"
                  THEN pev.signals \cup {pev.signum} ELSE pev.signals
    /\ pev.op = "child" =>
           /\ worker_proxy[pev.p].state = WORKER_STATE_EXITED
           /\ worker_proxy[pev.p].res = "gone"
    /\ \A p \in Workers :
           /\ worker_proxy[p].res = "gone" =>
                  (worker_proxy[p].state = WORKER_STATE_EXITED /\ worker[p].proc = "reaped")
           /\ worker_proxy[p].state = WORKER_STATE_EXITED => worker_proxy[p].res = "gone"

\* the exit of a worker whose proxy had timed out is handled
C10_Witness ==
    /\ pev.op = "child"
    /\ pev.from = WORKER_STATE_TIMED_OUT
    /\ worker_proxy[pev.p].state = WORKER_STATE_EXITED


\* C11: the handling of the exit of a worker sets the proxy EXITED and removes
\* it, and it runs only when every message the worker had put on the channel
\* has been taken off by _on_worker_proxy_channel_event: no message is left
\* on the channel of a proxy that is gone, and a message that was pending when
\* the worker exited is handled by a proxy that is still there.
C11_ExitAfterPendingData ==
    /\ pev.op = "child" =>
           /\ worker_proxy[pev.p].state = WORKER_STATE_EXITED
           /\ worker_proxy[pev.p].res = "gone"
           /\ chan_to_proxy[pev.p] = <<>>
    /\ \A p \in Workers :
           /\ worker_proxy[p].res = "gone" => chan_to_proxy[p] = <<>>
           /\ (worker[p].proc = "exited" /\ chan_to_proxy[p] # <<>>
                  /\ worker_proxy[p].res # "dead") =>
                  (worker_proxy[p].res = "live" /\ worker_proxy[p].state # WORKER_STATE_EXITED)

\* a message the worker sent before it exited is handled after the exit, by
\* the proxy that is not yet removed
C11_Witness ==
    /\ pev.op = "proxy_channel" /\ pev.exited
    /\ worker[pev.p].proc = "exited"
    /\ worker_proxy[pev.p].res = "live"
    /\ chan_to_proxy[pev.p] = <<>>


\* the number of YIELD messages on a channel
YieldsOn(chan) ==
    Cardinality({i \in DOMAIN chan : chan[i].cmd = WORKER_CHANNEL_CMD_YIELD})

\* C12: a worker that yields (its connection is cleaned up) with parent_exited
\* not set puts one YIELD on its channel to the proxy, the one channel of wire
\* type SOCKET that ubridge gives a worker, and raises no signal; a worker
\* that yields after its SIGUSR1 handler has set parent_exited puts no YIELD
\* on the channel and has SIGTERM pending as long as it runs.
C12_YieldOrTerminate ==
    [][\A p \in Workers :
          (/\ pev'.op \in {"connection", "cmd_handler"}
           /\ pev'.p = p
           /\ conn[p] # "closed"
           /\ conn'[p] = "closed") =>
              IF worker[p].parent_exited = 0
              THEN /\ chan_to_proxy'[p] # <<>>
                   /\ chan_to_proxy'[p][Len(chan_to_proxy'[p])].cmd = WORKER_CHANNEL_CMD_YIELD
                   /\ YieldsOn(chan_to_proxy'[p]) = YieldsOn(chan_to_proxy[p]) + 1
                   /\ worker'[p].proc = "running" => worker'[p].signals = worker[p].signals
              ELSE /\ YieldsOn(chan_to_proxy'[p]) = YieldsOn(chan_to_proxy[p])
                   /\ worker'[p].proc = "running" => SIGTERM \in worker'[p].signals
      ]_vars

\* a worker whose parent has exited has cleaned up its connection: no YIELD is
\* on its channel and SIGTERM is pending
C12_Witness ==
    /\ pev.op \in {"connection", "cmd_handler"}
    /\ conn[pev.p] = "closed"
    /\ worker[pev.p].proc = "running"
    /\ worker[pev.p].parent_exited = 1
    /\ SIGTERM \in worker[pev.p].signals
    /\ YieldsOn(chan_to_proxy[pev.p]) = 0


(***************************************************************************)
(* The properties of the scan                                              *)
(***************************************************************************)

\* the phases of a scan in the order of cmd_scan_phase_t
ScanPhaseOrder ==
    <<CMD_SCAN_PHASE_A_INIT, CMD_SCAN_PHASE_A_IDENT, CMD_SCAN_PHASE_A_SCAN_PRE,
      CMD_SCAN_PHASE_A_SCAN_CURRENT, CMD_SCAN_PHASE_A_SCAN_NEXT,
      CMD_SCAN_PHASE_A_SCAN_POST_CURRENT, CMD_SCAN_PHASE_A_SCAN_POST_NEXT,
      CMD_SCAN_PHASE_A_WAITING, CMD_SCAN_PHASE_A_EXIT>>

\* the SCAN commands that exist
ScanCmds == {p \in Workers : cmd[p].exists /\ cmd[p].type = SID_CMD_SCAN}

\* C13: the phases a scan has executed are an initial part of INIT, IDENT,
\* SCAN_PRE, SCAN_CURRENT, SCAN_NEXT, SCAN_POST_CURRENT, SCAN_POST_NEXT,
\* WAITING, EXIT: in that order and each at most once; the phase whose exec
\* call has returned last is the last one started, and a scan that returns
\* success has executed all nine.
C13_PhasesInOrder ==
    /\ \A p \in ScanCmds :
           /\ Len(cmd[p].scan.ran) <= Len(ScanPhaseOrder)
           /\ cmd[p].scan.ran = SubSeq(ScanPhaseOrder, 1, Len(cmd[p].scan.ran))
    /\ (pev.op = "scan" /\ pev.exec # CMD_SCAN_PHASE_ERROR) =>
           cmd[pev.p].scan.ran[Len(cmd[pev.p].scan.ran)] = pev.exec
    /\ (pev.op = "scan" /\ pev.returned /\ pev.scan_r = 0) =>
           cmd[pev.p].scan.ran = ScanPhaseOrder

\* a scan in which a phase and the ERROR phase after it failed has run all
\* nine phases
C13_Witness ==
    /\ pev.op = "scan" /\ pev.returned /\ pev.scan_r = 0
    /\ cmd[pev.p].scan.ran = ScanPhaseOrder
    /\ cmd[pev.p].scan.failed = {"phase", "error"}

\* C14: when the INIT or the EXIT phase fails, _cmd_exec_scan returns the
\* failure at once: the failed phase is the last phase of the scan, nothing
\* is built or exported, the handler of the command does not run again, and
\* the command is in CMD_ERROR with SID_CMD_STATUS_FAILURE set.
C14_InitOrExitFailureIsFatal ==
    (/\ pev.op = "scan"
     /\ pev.exec \in {CMD_SCAN_PHASE_A_INIT, CMD_SCAN_PHASE_A_EXIT}
     /\ pev.r < 0) =>
        /\ pev.returned /\ pev.scan_r < 0
        /\ cmd[pev.p].scan.ran[Len(cmd[pev.p].scan.ran)] = pev.exec
        /\ ~cmd[pev.p].scan.error
        /\ ~cmd[pev.p].cmd_handler_es
        /\ ~ENABLED _cmd_handler_scan(pev.p)
        /\ cmd[pev.p].state = CMD_ERROR
        /\ pev.failure
        /\ ~pev.built /\ ~pev.sync
        /\ chan_to_proxy[pev.p] = <<>>

\* the INIT phase of a scan has failed
C14_Witness ==
    /\ pev.op = "scan"
    /\ pev.exec = CMD_SCAN_PHASE_A_INIT
    /\ pev.r < 0
    /\ cmd[pev.p].state = CMD_ERROR
    /\ cmd[pev.p].scan.ran = <<CMD_SCAN_PHASE_A_INIT>>

\* C15: when a phase other than INIT and EXIT fails, the ERROR phase is what
\* runs next; after the ERROR phase, whatever it returned, the scan goes on
\* with the phase after the failed one; and a scan with such failures that
\* has run through has its buffers built and its export, which holds the
\* records set so far, sent to the main process.
C15_ErrorPhaseThenContinue ==
    /\ (/\ pev.op = "scan"
        /\ pev.exec \in (CMD_SCAN_PHASE_A_IDENT..CMD_SCAN_PHASE_A_WAITING)
        /\ pev.r < 0) =>
           /\ ~pev.returned
           /\ cmd[pev.p].cmd_handler_es
           /\ cmd[pev.p].scan.error
           /\ cmd[pev.p].scan.next = pev.exec
    /\ (pev.op = "scan" /\ pev.exec = CMD_SCAN_PHASE_ERROR) =>
           /\ ~pev.returned
           /\ cmd[pev.p].cmd_handler_es
           /\ ~cmd[pev.p].scan.error
           /\ cmd[pev.p].scan.next = cmd[pev.p].scan.phase + 1
           /\ cmd[pev.p].scan.ran[Len(cmd[pev.p].scan.ran)] = cmd[pev.p].scan.phase
           /\ "phase" \in cmd[pev.p].scan.failed
    /\ (pev.op = "scan" /\ pev.returned /\ pev.scan_r = 0
            /\ cmd[pev.p].scan.failed # {}) =>
           /\ cmd[pev.p].scan.ran = ScanPhaseOrder
           /\ pev.built
           /\ cmd[pev.p].state \in {CMD_EXPECTING_EXPBUF_ACK, CMD_ERROR}
           /\ cmd[pev.p].state = CMD_ERROR => ~pev.sync
           /\ cmd[pev.p].state = CMD_EXPECTING_EXPBUF_ACK =>
                  /\ pev.sync
                  /\ chan_to_proxy[pev.p] # <<>>
                  /\ chan_to_proxy[pev.p][1].sys = SYSTEM_CMD_SYNC
                  /\ chan_to_proxy[pev.p][1].exp_buf.records # <<>>

\* a scan in which a phase and the ERROR phase after it failed has sent its
\* export
C15_Witness ==
    /\ pev.op = "scan" /\ pev.returned /\ pev.scan_r = 0
    /\ cmd[pev.p].scan.failed = {"phase", "error"}
    /\ pev.sync
    /\ cmd[pev.p].state = CMD_EXPECTING_EXPBUF_ACK


\* the phases in which module callbacks run
ModulePhases == CMD_SCAN_PHASE_A_IDENT..CMD_SCAN_PHASE_A_SCAN_POST_NEXT

\* C16: in a phase in which modules are called (IDENT to SCAN_POST_NEXT), a
\* negative return of a module called in it, of a block module or of the
\* type module, makes the ERROR phase run next.
C16_ModuleFailureRunsError ==
    (/\ pev.op = "scan"
     /\ pev.exec \in ModulePhases
     /\ (pev.block_r < 0 \/ pev.r < 0)) =>
        /\ cmd[pev.p].scan.error
        /\ ENABLED _cmd_handler_scan(pev.p)

\* C17 as stated: in every phase, the ERROR phase included, the block
\* modules are called in the order of the registry up to the first one that
\* returns a negative value, and after them at most one type module.
C17_BlocksThenOneTypeModule ==
    (pev.op = "scan" /\ pev.exec \in ModulePhases \cup {CMD_SCAN_PHASE_ERROR}) =>
        /\ pev.blocks >= 1
        /\ \A i \in 1..pev.blocks :
               /\ pev.calls[i] = [registry |-> "block", mod |-> i]
               /\ i < pev.blocks => pev.block_rets[i] >= 0
        /\ pev.blocks < Len(pev.block_rets) => pev.block_rets[pev.blocks] < 0
        /\ \A i \in (pev.blocks + 1)..Len(pev.calls) : pev.calls[i].registry = "type"
        /\ Len(pev.calls) <= pev.blocks + 1

\* C17: in every phase, the ERROR phase included, the block modules are
\* called in the order of the registry up to the first one that returns a
\* negative value, and the type modules after them: at most one in the
\* phases IDENT to SCAN_POST_NEXT (the current one, in SCAN_NEXT and
\* SCAN_POST_NEXT the next one), in the ERROR phase the current and the next
\* one, each if there is one.
C17_BlocksThenTypeModules ==
    (pev.op = "scan" /\ pev.exec \in ModulePhases \cup {CMD_SCAN_PHASE_ERROR}) =>
        /\ pev.blocks >= 1
        /\ \A i \in 1..pev.blocks :
               /\ pev.calls[i] = [registry |-> "block", mod |-> i]
               /\ i < pev.blocks => pev.block_rets[i] >= 0
        /\ pev.blocks < Len(pev.block_rets) => pev.block_rets[pev.blocks] < 0
        /\ \A i \in (pev.blocks + 1)..Len(pev.calls) : pev.calls[i].registry = "type"
        /\ IF pev.exec = CMD_SCAN_PHASE_ERROR
           THEN SubSeq(pev.calls, pev.blocks + 1, Len(pev.calls)) =
                    (IF cmd[pev.p].scan.exec_arg.type_mod_res_current
                     THEN <<[registry |-> "type", mod |-> "current"]>> ELSE <<>>)
                    \o (IF cmd[pev.p].scan.exec_arg.type_mod_res_next
                        THEN <<[registry |-> "type", mod |-> "next"]>> ELSE <<>>)
           ELSE /\ Len(pev.calls) <= pev.blocks + 1
                /\ Len(pev.calls) = pev.blocks + 1 =>
                       pev.calls[Len(pev.calls)].mod =
                           IF pev.exec \in {CMD_SCAN_PHASE_A_SCAN_NEXT,
                                            CMD_SCAN_PHASE_A_SCAN_POST_NEXT}
                           THEN "next" ELSE "current"

\* a phase in which the first block module failed: the second one was not
\* called, the type module was
C17_Witness ==
    /\ pev.op = "scan"
    /\ pev.exec \in ModulePhases
    /\ pev.block_rets[1] < 0
    /\ pev.blocks = 1
    /\ Len(pev.calls) = 2
    /\ pev.calls[2].registry = "type"

C19_ErrorPhaseHasNoCapabilities ==
    (/\ pev.op = "scan"
     /\ pev.exec = CMD_SCAN_PHASE_ERROR
     /\ kvev.fn # "none"
     /\ kvev.value \notin {"DEV_NOT_RDY_UNDEFINED", "DEV_RES_UNDEFINED"}) =>
        /\ kvev.r = -EPERM
        /\ ~kvev.set
        /\ ~kvev.changed

(***************************************************************************)
(* The properties of the delta step                                        *)
(***************************************************************************)

\* the delta steps with one of the three operations that succeeded
DeltaSteps(op) == kvev.op = "delta_step" /\ kvev.delta_op = op /\ kvev.r = 0

\* the sorted vector of a set of items
VectorOf(S) == KeysInOrder(S)

\* the items of a delta buffer as a vector: a destroyed buffer has none
BufferItems(buf) == IF buf = NULL THEN <<>> ELSE buf.data

\* C20: for a sorted old vector O and a sorted new vector N, one delta step
\* yields: for SET, final = N, plus = the items of N not in O, minus = the
\* items of O not in N; for PLUS, final = O united with N, plus = the items
\* of N not in O, minus empty; for MINUS, final = the items of O not in N,
\* plus empty, minus = the items in both O and N.
C20_DeltaStepByOperation ==
    kvev.op = "delta_step" /\ kvev.delta_op # KV_OP_ILLEGAL =>
        LET O == ItemsOf(kvev.old)
            N == ItemsOf(kvev.new)
        IN  /\ kvev.r = 0
            /\ DeltaSteps(KV_OP_SET) =>
                   /\ BufferItems(kvev.final) = kvev.new.data
                   /\ BufferItems(kvev.plus) = VectorOf(N \ O)
                   /\ BufferItems(kvev.minus) = VectorOf(O \ N)
            /\ DeltaSteps(KV_OP_PLUS) =>
                   /\ BufferItems(kvev.final) = VectorOf(O \cup N)
                   /\ BufferItems(kvev.plus) = VectorOf(N \ O)
                   /\ kvev.minus = NULL
            /\ DeltaSteps(KV_OP_MINUS) =>
                   /\ BufferItems(kvev.final) = VectorOf(O \ N)
                   /\ kvev.plus = NULL
                   /\ BufferItems(kvev.minus) = VectorOf(O \cap N)

\* a SET step whose old and new vector each have an item the other has not,
\* and an item in common
C20_Witness ==
    /\ DeltaSteps(KV_OP_SET)
    /\ ItemsOf(kvev.old) \ ItemsOf(kvev.new) # {}
    /\ ItemsOf(kvev.new) \ ItemsOf(kvev.old) # {}
    /\ ItemsOf(kvev.old) \cap ItemsOf(kvev.new) # {}
    /\ kvev.committed

(***************************************************************************)
(* The properties of the merge of two exports                              *)
(***************************************************************************)

\* the records of an export that add members to (KV_OP_PLUS) or remove
\* members from (KV_OP_MINUS) a relation vector
DeltaRecords(exp_buf) ==
    {exp_buf.records[i] : i \in {j \in 1..Len(exp_buf.records) :
         /\ exp_buf.records[j].value.vector
         /\ _get_op_from_key(exp_buf.records[j].key) \in {KV_OP_PLUS, KV_OP_MINUS}}}

\* the relation vectors an export changes
RelationKeys(exp_buf) == {Tail(r.key) : r \in DeltaRecords(exp_buf)}

\* the members of the vector under key after the merge of first and then of
\* second into the main store
MembersAfter(first, second, key) ==
    ItemsOf(kv_store_get_value(
                _sync_main_kv_store(_sync_main_kv_store(main_kv, first).st, second).st, key))

\* the exports of two workers that wait for their merge and change the same
\* relation vector
ExportPairs ==
    {pair \in exports \X exports :
         pair[1] # pair[2] /\ RelationKeys(pair[1]) \cap RelationKeys(pair[2]) # {}}

\* C21: when the exports of two workers that add or remove members of the
\* same relation vector are merged at the parent, the resulting vector is the
\* same whichever export is merged first and reflects both workers' changes:
\* it holds what either added and does not hold what either removed.
C21_MergeOrderIrrelevant ==
    \A pair \in ExportPairs :
        \A key \in RelationKeys(pair[1]) \cap RelationKeys(pair[2]) :
            /\ MembersAfter(pair[1], pair[2], key) = MembersAfter(pair[2], pair[1], key)
            /\ \A i \in 1..2 :
                   \A r \in DeltaRecords(pair[i]) :
                       Tail(r.key) = key =>
                           IF _get_op_from_key(r.key) = KV_OP_PLUS
                           THEN ItemsOf(r.value) \subseteq MembersAfter(pair[1], pair[2], key)
                           ELSE ItemsOf(r.value) \cap MembersAfter(pair[1], pair[2], key) = {}

(***************************************************************************)
(* The properties of an unset merged at the main process                   *)
(***************************************************************************)

\* the records of a merge that unset a key that holds a record
MergedUnsets ==
    IF kvev.op = "sync"
    THEN {kvev.log[i] : i \in {j \in 1..Len(kvev.log) :
                                   kvev.log[j].unset /\ kvev.log[j].old # NULL}}
    ELSE {}

\* C22: at the main process, an unset carried by a worker's export is applied
\* to an existing record only if the sequence number of the export's record
\* is greater than or equal to the stored record's and the ownership rules
\* allow it; otherwise the stored record is kept.
C22_UnsetAppliedOnlyIfNotOlder ==
    \A l \in MergedUnsets :
        /\ l.applied =>
               /\ l.new.seqnum >= l.old.seqnum
               /\ ~(_flags_indicate_mod_owned(l.old.flags) /\ l.old.owner # l.new.owner)
        /\ ~l.applied => kv_store_get_value(main_kv, l.key) = l.old

(***************************************************************************)
(* The properties of reading a record                                      *)
(***************************************************************************)

\* C23: a record flagged KV_MOD_PRIVATE can be read only by its owner:
\* get_kv by any other module returns no value for it (and no flags).
C23_PrivateReadByOwnerOnly ==
    (/\ kvev.op = "get"
     /\ kvev.stored # NULL
     /\ KV_MOD_PRIVATE \in kvev.stored.flags
     /\ kvev.stored.owner # kvev.owner) =>
        ~kvev.returned /\ ~kvev.flags_read /\ kvev.value = <<>>

\* module b asks for the record that module a stored as KV_MOD_PRIVATE with
\* a value
C23_Witness ==
    /\ kvev.op = "get"
    /\ kvev.stored # NULL
    /\ KV_MOD_PRIVATE \in kvev.stored.flags
    /\ kvev.stored.data # <<>>
    /\ kvev.stored.owner # kvev.owner
    /\ ~kvev.returned

(***************************************************************************)
(* The properties of a reservation                                         *)
(***************************************************************************)

\* a key is reserved when its record carries KV_MOD_RESERVED: the record a
\* reservation stores, not the one an unreservation leaves
ReservedBy(record) == IF record # NULL /\ KV_MOD_RESERVED \in record.flags THEN {record.owner} ELSE {}

\* C24: if module A has reserved a key, module B's attempt to reserve the
\* same key returns BUSY and leaves A's reservation intact; after A
\* unreserves the key (so that no module has it reserved), B's next attempt
\* to reserve it succeeds.
C24_ReserveBusyUntilUnreserved ==
    kvev.op = "reserve" /\ ~kvev.unset =>
        IF ReservedBy(kvev.old) \ {kvev.owner} # {}
        THEN /\ kvev.r < 0
             /\ kvev.ret_code = "-EBUSY"
             /\ kv_store_get_value(snap.st, kvev.key) = kvev.old
        ELSE /\ kvev.r = 0
             /\ ReservedBy(kv_store_get_value(snap.st, kvev.key)) = {kvev.owner}

(***************************************************************************)
(* The properties of the destruction of a group                            *)
(***************************************************************************)

\* the key spec under which _handle_current_dev_for_group keeps the members
\* of the group that a group_destroy names
GroupKeySpec ==
    KeySpec(KV_OP_SET, KV_KEY_DOM_USER, kvev.group_ns,
            _get_ns_part(kvev.owner, snap.dev_id, kvev.group_ns), kvev.group_id, ID_NULL,
            KV_KEY_GEN_GROUP_MEMBERS)

\* the members the group had before the group_destroy
MembersBefore == ItemsOf(kv_store_get_value(kvev.before, _compose_key(GroupKeySpec)))

\* the groups that the #GIN record of a member names
GroupsOf(st, member) ==
    ItemsOf(kv_store_get_value(
                st, _compose_key(KeySpec(KV_OP_SET, ID_NULL, KV_NS_DEVICE,
                                         _copy_ns_part_from_key(member), ID_NULL, ID_NULL,
                                         KV_KEY_GEN_GROUP_IN))))

\* C25: group_destroy with force = 0 on a group that still has at least one
\* member added by group_add_current_dev fails with ENOTEMPTY and leaves the
\* group's and its members' records unchanged.
C25_DestroyNonEmptyRefused ==
    (kvev.op = "group_destroy" /\ ~kvev.force /\ MembersBefore # {}) =>
        kvev.r = -ENOTEMPTY /\ snap.st = kvev.before

\* C26: group_destroy with force = 1 on a non-empty group removes the group's
\* key prefix from the #GIN vector of every device that was a member of the
\* group.
C26_ForcedDestroyRemovesReciprocals ==
    (kvev.op = "group_destroy" /\ kvev.force /\ MembersBefore # {}) =>
        \A member \in MembersBefore :
            _compose_key_prefix(GroupKeySpec) \notin GroupsOf(snap.st, member)


(***************************************************************************)
(* The properties of the refused requests                                  *)
(***************************************************************************)

\* C27: a request whose protocol version differs from SID_PROTOCOL gets a
\* header with SID_CMD_STATUS_FAILURE written to its socket, its connection is
\* closed, and no command exists for it.
C27_ProtocolMismatchRefused ==
    (/\ pev.op = "connection"
     /\ pev.revents = "EPOLLIN"
     /\ pev.prot # SID_PROTOCOL) =>
        /\ pev.replied
        /\ conn[pev.p] = "closed"
        /\ ~cmd[pev.p].exists

\* C28: a request for a root-only command from a peer that is not root leaves
\* no command behind, and a header with SID_CMD_STATUS_FAILURE is written to
\* the socket of the peer.
C28_RootOnlyRefused ==
    (/\ pev.op = "connection"
     /\ pev.revents = "EPOLLIN"
     /\ _cmd_root_only(pev.type)
     /\ ~pev.root) =>
        /\ ~cmd[pev.p].exists
        /\ pev.replied

\* C29: when the write of the response buffer to the client or the send of
\* the export buffer to the main process fails, the handler ends with the
\* command in CMD_ERROR, the connection of the client closed and the worker
\* yielded.
C29_SendFailureTearsDown ==
    (pev.op = "cmd_handler" /\ pev.io_error # "none") =>
        /\ pev.changes[Len(pev.changes)] = CMD_ERROR
        /\ conn[pev.p] = "closed"
        /\ pev.yielded


(***************************************************************************)
(* The properties of the import of the udev environment                    *)
(***************************************************************************)

\* the key and the value of a field KEY=VALUE, split at the first '='
FieldKey(field) == SubSeq(field, 1, strchr(field, "=") - 1)
FieldValue(field) == SubSeq(field, strchr(field, "=") + 1, Len(field))

\* a field with a key, '=' and a value that is not empty
IsPair(field) == strchr(field, "=") \notin {0, Len(field)}

\* the record of a field of the imported environment in the snapshot
UdevRecord(field) ==
    kv_store_get_value(snap.st,
                       _compose_key(KeySpec(KV_OP_SET, ID_NULL, KV_NS_UDEV, snap.dev_id, ID_NULL,
                                            ID_NULL, FieldKey(field))))

\* the number of fields in front of the first one that is not a pair
LeadingPairs(env) ==
    IF \A i \in 1..Len(env) : IsPair(env[i]) THEN Len(env)
    ELSE (CHOOSE i \in 1..Len(env) : ~IsPair(env[i]) /\ \A j \in 1..(i - 1) : IsPair(env[j])) - 1

ItemSet(record) == {VvalueItems(record)[i] : i \in 1..Len(VvalueItems(record))}

\* the keys of a store that have an absolute-plus or absolute-minus record
AbsDeltaKeys(st) == {Tail(key) : key \in {k \in DOMAIN st.rec : Head(k) \in {"+", "-"}}}

\* the recorded absolute-plus and absolute-minus vectors of a key
AbsPlus(st, key) == ItemSet(kv_store_get_value(st, <<"+">> \o key))
AbsMinus(st, key) == ItemSet(kv_store_get_value(st, <<"-">> \o key))

\* C31: in a snapshot that started without absolute deltas, an item of the
\* absolute-plus vector of a key is in the vector of the key and an item of
\* the absolute-minus vector is not (an item added and later removed, or
\* removed and later added, is in neither), and the two vectors share no item.
C31_AbsDeltaCancels ==
    snap.state = "running" =>
        \A key \in AbsDeltaKeys(snap.st) :
            /\ AbsPlus(snap.st, key) \subseteq ItemSet(kv_store_get_value(snap.st, key))
            /\ AbsMinus(snap.st, key) \cap ItemSet(kv_store_get_value(snap.st, key)) = {}
            /\ AbsPlus(snap.st, key) \cap AbsMinus(snap.st, key) = {}

\* C32: a mutation whose operator is illegal changes nothing: a delta step
\* of a worker with KV_OP_ILLEGAL leaves the snapshot as it was, and the merge
\* of an export leaves the record under every key of the export that carries
\* an illegal operator as it was (absent if it was absent).
C32_IllegalOperatorAborts ==
    [][/\ (kvev'.op = "delta_step" /\ kvev'.delta_op = KV_OP_ILLEGAL) => snap'.st = snap.st
       /\ \A exp_buf \in exports :
              (kvev'.op = "sync" /\ exports' = exports \ {exp_buf}) =>
                  \A i \in 1..Len(exp_buf.records) :
                      _get_op_from_key(exp_buf.records[i].key) = KV_OP_ILLEGAL =>
                          kv_store_get_value(main_kv', exp_buf.records[i].key)
                              = kv_store_get_value(main_kv, exp_buf.records[i].key)
      ]_vars

\* the local delta of the mutation an event reports, calculated from the
\* store before it: the items the step adds and the items it removes
LocalDelta(st, key, op, items) ==
    _delta_step_calc(op, kv_store_get_value(st, key),
                     Value(MaxSeq, value_flags_no_sync, OWNER_CORE, TRUE, items))

LocalDeltaSize(st, key, op, items) ==
    Len(VvalueItems(LocalDelta(st, key, op, items).plus))
        + Len(VvalueItems(LocalDelta(st, key, op, items).minus))

\* C33: a mutation with DELTA_WITH_REL ends with every _kv_delta_set it
\* made from _delta_update run at depth two with DELTA_WITH_DIFF alone, and
\* with no more of them than the local plus and minus deltas have items
C33_ReciprocalUpdatesBounded ==
    [][/\ kvev'.op \in {"group", "group_destroy"} =>
              \A i \in 1..Len(kvev'.nested) :
                  kvev'.nested[i] = [depth |-> 2, flags |-> {DELTA_WITH_DIFF}]
       /\ kvev'.op = "group" =>
              Len(kvev'.nested) <= LocalDeltaSize(snap.st, kvev'.key, kvev'.delta_op,
                                                  <<kvev'.rel_key_prefix>>)
      ]_vars

\* the current device has been added to or removed from a group, with the
\* reciprocal update of the device's record
C33_Witness ==
    kvev.op = "group" /\ Len(kvev.nested) = 1 /\ ~kvev.crashed

(***************************************************************************)
(* The properties of the last states of a worker proxy and of the end of   *)
(* a command                                                               *)
(***************************************************************************)

\* C34: a proxy that is EXITING, TIMED_OUT or EXITED is not ASSIGNED or IDLE
\* after any step, and a proxy that is EXITED stays EXITED
C34_LastStatesAreKept ==
    [][\A p \in Workers :
           /\ worker_proxy[p].state \in {WORKER_STATE_EXITING, WORKER_STATE_TIMED_OUT,
                                         WORKER_STATE_EXITED} =>
                  worker_proxy'[p].state \notin {WORKER_STATE_ASSIGNED, WORKER_STATE_IDLE}
           /\ worker_proxy[p].state = WORKER_STATE_EXITED =>
                  worker_proxy'[p].state = WORKER_STATE_EXITED
      ]_vars

\* C35: a command in CMD_EXEC_SCHEDULED reaches CMD_OK or CMD_ERROR, unless
\* the worker or the main process ends or the command is destroyed with its
\* connection
C35_ScheduledCommandEnds ==
    \A p \in Workers :
        (cmd[p].exists /\ cmd[p].state = CMD_EXEC_SCHEDULED)
            ~> \/ cmd[p].state \in {CMD_OK, CMD_ERROR}
               \/ ~cmd[p].exists
               \/ worker[p].proc # "running"
               \/ worker_proxy[p].res # "live"

\* C36: the main process puts the acknowledgement of an export on the
\* channel only if the merge of the export succeeded, and the command of a
\* worker whose export failed to merge is not in CMD_OK
C36_AckOnlyAfterMerge ==
    [][/\ (pev'.op = "proxy_channel" /\ pev'.sys = SYSTEM_CMD_SYNC
              /\ worker_proxy'[pev'.p].merged = "failed") =>
               chan_to_worker'[pev'.p] = chan_to_worker[pev'.p]
       /\ \A p \in Workers :
              worker_proxy'[p].merged = "failed" =>
                  ~(cmd'[p].exists /\ cmd'[p].state = CMD_OK)
      ]_vars

(***************************************************************************)
(* The properties of the merge of one export                               *)
(***************************************************************************)

\* C37: a merge that fails on a record of the export leaves the main store
\* as it was before the merge
C37_MergeAllOrNothing ==
    [][(kvev'.op = "sync" /\ kvev'.r < 0) => main_kv' = main_kv]_vars

BaseKey(key) ==
    IF MainKey(key) # <<>> /\ Head(MainKey(key)) \in {"+", "-"} THEN Tail(MainKey(key))
    ELSE MainKey(key)

\* C39: when the current device is added to or removed from a group, the
\* device's vector of groups changes in the item of that group only, and no
\* record is changed but those of the group and of the device
C39_ReciprocalUpdateFrame ==
    [][(kvev'.op = "group" /\ ~kvev'.crashed) =>
           /\ ItemSet(kv_store_get_value(snap.st, kvev'.rel_key)) \ {kvev'.key_prefix}
                  = ItemSet(kv_store_get_value(snap'.st, kvev'.rel_key)) \ {kvev'.key_prefix}
           /\ \A k \in DOMAIN snap.st.rec \cup DOMAIN snap'.st.rec :
                  BaseKey(k) \notin {MainKey(kvev'.key), MainKey(kvev'.rel_key)} =>
                      kv_store_get_value(snap'.st, k) = kv_store_get_value(snap.st, k)
      ]_vars

\* the current device, in one group already, has been added to another: the
\* device's vector holds both groups, and the record of the first is there
C39_Witness ==
    /\ kvev.op = "group" /\ kvev.delta_op = KV_OP_PLUS /\ ~kvev.crashed
    /\ Len(kvev.nested) = 1
    /\ Cardinality(ItemSet(kv_store_get_value(snap.st, kvev.rel_key))) = 2
    /\ \E k \in DOMAIN snap.st.rec :
           BaseKey(k) \notin {MainKey(kvev.key), MainKey(kvev.rel_key)}

\* C40: sid_ucmd_group_add_current_dev and sid_ucmd_group_remove_current_dev
\* return 0 when the vector of the group has been changed in the store, and
\* a negative value only when the store is as it was
C40_GroupChangeReturnsZero ==
    [][(kvev'.op = "group" /\ ~kvev'.crashed) =>
           /\ kv_store_get_value(snap'.st, kvev'.key) # kv_store_get_value(snap.st, kvev'.key)
                  => kvev'.r = 0
           /\ kvev'.r < 0 => snap'.st = snap.st
      ]_vars

====
